---- MODULE Spec2Model ----
(***************************************************************************)
(* Connectivity engine of schematics-organizer: Pin, BaseComponent, Net    *)
(* and Schematic (src/src/circuit_elements/core/base).                     *)
(*                                                                         *)
(* Objects live in two heaps and are referred to by their position there:  *)
(* heapNets holds the Net objects, heapComps the component objects with    *)
(* their Pin objects.  Python's None is the reference 0.  Pin indices are  *)
(* 0-based as in the code; pin i of a component is entry i + 1 of its      *)
(* sequences.  A dict is a sequence in insertion order.                    *)
(***************************************************************************)
EXTENDS Integers, Sequences, FiniteSets, TLC

\* ------------------------------------------------------------------ bounds

\* Net objects alive at once: those the caller constructed and those the schematic
\* created (connect_create_net, connect_pins).
MaxNets == 2
\* Largest integer pin selector a caller passes (the smallest is -1).
MaxPinSel == 1
\* Component objects a caller constructs at run time, and the longest list of pin
\* names it passes to the constructor.
MaxComponents == 1
MaxPins == 2

\* ------------------------------------------------------------- data model

\* Pin.net of an unconnected pin.
None == 0

\* Net.__init__
Net(name, is_ground) ==
    [name |-> name, is_ground |-> is_ground, connections |-> <<>>]

\* BaseComponent.__init__ for a valid pin-name list: Pin(i, pn) for each name, net None.
Component(name, pin_names) ==
    [name |-> name, pin_names |-> pin_names,
     pin_net |-> [i \in 1..Len(pin_names) |-> None]]

\* Mutant: the constructor accepts every list of pin names that is not empty.
BaseComponentInitLax(name, pin_names) ==
    IF pin_names = <<>> THEN [err |-> "DuplicateOrEmptyPins", ret |-> None]
    ELSE [err |-> "none", ret |-> Component(name, pin_names)]

\* BaseComponent.__init__ for any pin-name list: ValueError for an empty list, and for
\* a list whose _pin_by_name dict has fewer keys than there are pins.
BaseComponentInit(name, pin_names) ==
    LET pins == [k \in 1..Len(pin_names) |-> [index |-> k - 1, name |-> pin_names[k]]]
        pin_by_name == {pins[k].name : k \in 1..Len(pins)}
    IN IF pin_names = <<>> THEN [err |-> "DuplicateOrEmptyPins", ret |-> None]
       ELSE IF Cardinality(pin_by_name) # Len(pins)
       THEN [err |-> "DuplicateOrEmptyPins", ret |-> None]
       ELSE [err |-> "none", ret |-> Component(name, pin_names)]

\* The pin-name lists a caller passes to the constructor.
PinNameLists == UNION { [1..k -> {"1", "2"}] : k \in 0..MaxPins }

\* The Net objects the caller has constructed before using the schematic.
NetWorlds ==
    { << Net("A", TRUE) >> }

\* The component objects the caller has constructed.
CompWorlds ==
    { << Component("R1", <<"1", "2">>), Component("R2", <<"1">>) >> }

\* Callers with name clashes: two Net objects named "A", two ground nets, and two
\* component objects named "R1".
TwinNetWorlds ==
    { << Net("A", TRUE), Net("A", FALSE), Net("B", TRUE) >> }
TwinCompWorlds ==
    { << Component("R1", <<"1", "2">>), Component("R1", <<"1", "2">>) >> }

\* Callers that leave the naming of nets to connect_pins, with no Net object of their
\* own or with one whose name has the form of an auto-generated name.
AutoNetWorlds ==
    { << >>, << Net("N$1", FALSE) >> }

\* Callers that build a netlist with connect_create_net alone, as the voltage-divider
\* fixture does: two resistors, or one component with three pins.
GraphCompWorlds ==
    { << Component("R1", <<"1", "2">>), Component("R2", <<"1", "2">>) >>,
      << Component("R1", <<"1", "2", "3">>) >> }
GraphNetNames == {"VCC", "VOUT", "GND"}

\* A caller whose net names and component names overlap: a net may be called "R1".
ClashCompWorlds ==
    { << Component("R1", <<"1", "2">>), Component("R2", <<"1", "2">>) >> }
ClashNetNames == {"R1", "VCC"}

\* A caller with three nets of its own and one component with four pins, enough for a
\* second merge to meet what a first merge left behind.
MergeNetWorlds ==
    { << Net("A", TRUE), Net("B", FALSE), Net("C", FALSE) >> }
MergeCompWorlds ==
    { << Component("U1", <<"1", "2", "3", "4">>) >> }

\* A pin selector is an int or a str.
IntSel(i) == [kind |-> "int", i |-> i, s |-> ""]
StrSel(s) == [kind |-> "str", i |-> 0, s |-> s]
PinSelectors ==
    {IntSel(i) : i \in -1..MaxPinSel} \cup {StrSel("2")}
\* The selectors of the graph fixture: pin names, as in the voltage-divider fixture.
GraphSelectors == {StrSel("1"), StrSel("2"), StrSel("3")}

\* A component argument of connect_pins is a name or an instance.
CompName(s) == [kind |-> "str", s |-> s, o |-> None]
CompObj(o) == [kind |-> "obj", s |-> "", o |-> o]

NetNames == {"A", "B"}
CompNames == {"R1", "R2"}

\* f"N${counter}"
Digit(d) == <<"0", "1", "2", "3", "4", "5", "6", "7", "8", "9">>[d + 1]
RECURSIVE Decimal(_)
Decimal(k) == IF k < 10 THEN Digit(k) ELSE Decimal(k \div 10) \o Digit(k % 10)
AutoName(k) == "N$" \o Decimal(k)

\* ------------------------------------------------------------------ state

VARIABLES
    nets,              \* Schematic._nets: registered net objects, in insertion order
    components,        \* Schematic._components: registered components, in insertion order
    frozen,            \* Schematic._frozen
    anon_net_counter,  \* Schematic._anon_net_counter
    heapNets,          \* the Net objects: name, is_ground, _connections
    heapComps,         \* the component objects: name, pin names, each Pin's net
    last,              \* the last call: operation, resolved arguments, outcome
    pc                 \* the threads: whether calls are serialized by one lock, the
                       \* lock, and the mutator call that is past its frozen check

vars == <<nets, components, frozen, anon_net_counter, heapNets, heapComps, last, pc>>

\* The program state as one value, so that operations compose as in the code.
St ==
    [nets |-> nets, components |-> components, frozen |-> frozen,
     anon_net_counter |-> anon_net_counter,
     heapNets |-> heapNets, heapComps |-> heapComps]

\* The outcome of a call: the state it leaves, the error it raised, what it returned.
Ok(st, ret) == [st |-> st, err |-> "none", ret |-> ret, path |-> ""]
Raise(st, kind) == [st |-> st, err |-> kind, ret |-> None, path |-> ""]

\* ------------------------------------------------------------------- Net

\* Mutant: pin names are looked up from the last pin backwards.
PinLookupFromEnd(comp, name) ==
    IF \E i \in 1..Len(comp.pin_names) : comp.pin_names[i] = name
    THEN Len(comp.pin_names) - (CHOOSE i \in 1..Len(comp.pin_names) : comp.pin_names[i] = name)
    ELSE -1

\* BaseComponent.pin: the index of the pin of that name, -1 for KeyError.
PinLookup(comp, name) ==
    IF \E i \in 1..Len(comp.pin_names) : comp.pin_names[i] = name
    THEN (CHOOSE i \in 1..Len(comp.pin_names) : comp.pin_names[i] = name) - 1
    ELSE -1

\* Net._connections[component], the empty set when the key is absent.
PinSet(net, c) ==
    IF \E k \in 1..Len(net.connections) : net.connections[k].comp = c
    THEN (CHOOSE k \in 1..Len(net.connections) : net.connections[k].comp = c)
    ELSE 0

ConnectionsOf(net, c) ==
    IF PinSet(net, c) = 0 THEN {} ELSE net.connections[PinSet(net, c)].pins

\* Mutant: the accessor hands out the net's own dict and sets.
ConnectionsLive(st, n) ==
    [view |-> "live", sets |-> "set", net |-> n, items |-> <<>>]

\* Net.connections: {c: frozenset(p) for c, p in self._connections.items()}, a new
\* mapping of new immutable sets, made from the net's items when it is called
Connections(st, n) ==
    [view |-> "copy", sets |-> "frozenset", net |-> n,
     items |-> st.heapNets[n].connections]

\* What a mapping got from Net.connections holds when it is read in state st.
Shown(st, mapping) ==
    IF mapping.view = "live" THEN st.heapNets[mapping.net].connections
    ELSE mapping.items

\* Caller code on such a mapping: mapping[c].add(idx).  A frozenset has no add.
MappingSetAdd(st, mapping, c, idx) ==
    IF \A k \in 1..Len(Shown(st, mapping)) : Shown(st, mapping)[k].comp # c
    THEN [st |-> st, mapping |-> mapping, err |-> "KeyError"]
    ELSE IF mapping.sets = "frozenset"
    THEN [st |-> st, mapping |-> mapping, err |-> "AttributeError"]
    ELSE LET k == CHOOSE k \in 1..Len(Shown(st, mapping)) : Shown(st, mapping)[k].comp = c
         IN [st |-> [st EXCEPT !.heapNets[mapping.net].connections[k].pins = @ \cup {idx}],
             mapping |-> mapping, err |-> "none"]

\* Caller code on such a mapping: mapping[c] = pins for a new key c, and mapping.clear().
MappingAssign(st, mapping, c, pins) ==
    LET items == Append(Shown(st, mapping), [comp |-> c, pins |-> pins])
    IN IF mapping.view = "live"
       THEN [st |-> [st EXCEPT !.heapNets[mapping.net].connections = items],
             mapping |-> mapping, err |-> "none"]
       ELSE [st |-> st, mapping |-> [mapping EXCEPT !.items = items], err |-> "none"]

MappingClear(st, mapping) ==
    IF mapping.view = "live"
    THEN [st |-> [st EXCEPT !.heapNets[mapping.net].connections = <<>>],
          mapping |-> mapping, err |-> "none"]
    ELSE [st |-> st, mapping |-> [mapping EXCEPT !.items = <<>>], err |-> "none"]

\* Net.degree
Degree(net) ==
    LET RECURSIVE Sum(_)
        Sum(k) == IF k = 0 THEN 0
                  ELSE Cardinality(net.connections[k].pins) + Sum(k - 1)
    IN Sum(Len(net.connections))

\* self._connections.setdefault(component, set()).add(idx)
AddConnection(st, n, c, idx) ==
    LET net == st.heapNets[n]
        k == PinSet(net, c)
        conns == IF k = 0
                 THEN Append(net.connections, [comp |-> c, pins |-> {idx}])
                 ELSE [net.connections EXCEPT ![k].pins = @ \cup {idx}]
    IN [st EXCEPT !.heapNets[n].connections = conns]

\* Mutant: the pin's back-reference is not written.
SetPinNetSkipped(st, c, idx, n) == st

\* p.net = net
SetPinNet(st, c, idx, n) ==
    [st EXCEPT !.heapComps[c].pin_net[idx + 1] = n]

\* Mutant: a pin already on this same net counts as free.
PinBusyElsewhere(st, n, c, idx) ==
    st.heapComps[c].pin_net[idx + 1] \notin {None, n}

\* p.net is not None
PinBusy(st, n, c, idx) ==
    st.heapComps[c].pin_net[idx + 1] # None

\* Mutant: an integer selector is used as a Python list index, so -1 is the last pin.
NetConnectWrapping(st, n, c, sel) ==
    LET comp == st.heapComps[c]
        len == Len(comp.pin_names)
        byName == PinLookup(comp, sel.s)
    IN IF sel.kind = "str" /\ byName < 0 THEN Raise(st, "NotFound")
       ELSE IF sel.kind = "int" /\ ~(-len <= sel.i /\ sel.i < len)
            THEN Raise(st, "OutOfRange")
       ELSE LET idx == IF sel.kind = "str" THEN byName
                       ELSE IF sel.i < 0 THEN sel.i + len ELSE sel.i
            IN IF PinBusy(st, n, c, idx) THEN Raise(st, "AlreadyConnected")
               ELSE Ok(SetPinNet(AddConnection(st, n, c, idx), c, idx, n), None)

\* Net.connect
NetConnect(st, n, c, sel) ==
    LET comp == st.heapComps[c]
        byName == PinLookup(comp, sel.s)
    IN IF sel.kind = "str" /\ byName < 0 THEN Raise(st, "NotFound")
       ELSE IF sel.kind = "int" /\ ~(0 <= sel.i /\ sel.i < Len(comp.pin_names))
            THEN Raise(st, "OutOfRange")
       ELSE LET idx == IF sel.kind = "str" THEN byName ELSE sel.i
            IN IF PinBusy(st, n, c, idx) THEN Raise(st, "AlreadyConnected")
               ELSE Ok(SetPinNet(AddConnection(st, n, c, idx), c, idx, n), None)

\* ------------------------------------------------------------- Schematic

\* name in self._nets / self._nets[name]: the position of that key, 0 when absent
NetKey(st, name) ==
    IF \E k \in 1..Len(st.nets) : st.heapNets[st.nets[k]].name = name
    THEN CHOOSE k \in 1..Len(st.nets) : st.heapNets[st.nets[k]].name = name
    ELSE 0

\* name in self._components / self._components[name]
ComponentKey(st, name) ==
    IF \E k \in 1..Len(st.components) : st.heapComps[st.components[k]].name = name
    THEN CHOOSE k \in 1..Len(st.components) : st.heapComps[st.components[k]].name = name
    ELSE 0

\* Schematic.net
NetByName(st, name) ==
    IF NetKey(st, name) = 0 THEN Raise(st, "NotFound")
    ELSE Ok(st, st.nets[NetKey(st, name)])

\* Schematic.component
ComponentByName(st, name) ==
    IF ComponentKey(st, name) = 0 THEN Raise(st, "NotFound")
    ELSE Ok(st, st.components[ComponentKey(st, name)])

\* Schematic._resolve_component
ResolveComponent(st, comp) ==
    IF comp.kind = "str" THEN ComponentByName(st, comp.s)
    ELSE IF ComponentKey(st, st.heapComps[comp.o].name) = 0
         THEN Raise(st, "NotRegistered")
    ELSE Ok(st, st.components[ComponentKey(st, st.heapComps[comp.o].name)])

\* Mutant: the name is made from the counter, which is not advanced.
NewAutoNetNameStuck(st) ==
    [st |-> st, name |-> AutoName(st.anon_net_counter + 1)]

\* Schematic._new_auto_net_name: the counter advanced, and the name
NewAutoNetName(st) ==
    [st |-> [st EXCEPT !.anon_net_counter = @ + 1],
     name |-> AutoName(st.anon_net_counter + 1)]

\* the body of _merge_nets' inner loop, for one pin of the source net
MovePin(st, target, c, idx) ==
    SetPinNet(AddConnection(SetPinNet(st, c, idx, None), target, c, idx),
              c, idx, target)

\* for pin_idx in pin_set
RECURSIVE MovePins(_, _, _, _)
MovePins(st, target, c, pins) ==
    IF pins = {} THEN st
    ELSE LET idx == CHOOSE i \in pins : \A j \in pins : i <= j
         IN MovePins(MovePin(st, target, c, idx), target, c, pins \ {idx})

\* for component, pin_set in list(net_source._connections.items())
RECURSIVE MoveEntries(_, _, _, _)
MoveEntries(st, target, entries, k) ==
    IF k > Len(entries) THEN st
    ELSE MoveEntries(MovePins(st, target, entries[k].comp, entries[k].pins),
                     target, entries, k + 1)

\* Mutant: the source net stays in the registry.
RegistryKept(st, name) == Ok(st, None)

\* del self._nets[net_source.name]
RegistryDel(st, name) ==
    LET k == NetKey(st, name)
    IN IF k = 0 THEN Raise(st, "KeyError")
       ELSE Ok([st EXCEPT !.nets = SubSeq(@, 1, k - 1) \o SubSeq(@, k + 1, Len(@))],
               None)

\* Mutant: the target of a merge takes the source's is_ground flag along with its pins.
MergeNetsInheriting(st, net_target, net_source) ==
    IF st.frozen THEN Raise(st, "Frozen")
    ELSE IF net_target = net_source THEN Ok(st, None)
    ELSE LET moved == MoveEntries(st, net_target,
                                  st.heapNets[net_source].connections, 1)
         IN RegistryDel([moved EXCEPT !.heapNets[net_target].is_ground =
                                           st.heapNets[net_source].is_ground],
                        st.heapNets[net_source].name)

\* Schematic._merge_nets
MergeNets(st, net_target, net_source) ==
    IF st.frozen THEN Raise(st, "Frozen")
    ELSE IF net_target = net_source THEN Ok(st, None)
    ELSE RegistryDel(MoveEntries(st, net_target,
                                 st.heapNets[net_source].connections, 1),
                     st.heapNets[net_source].name)

\* Mutant: a net of a registered name takes the place of the registered one.
AddNetReplacing(st, n) ==
    IF st.frozen THEN Raise(st, "Frozen")
    ELSE IF NetKey(st, st.heapNets[n].name) # 0
         THEN Ok([st EXCEPT !.nets[NetKey(st, st.heapNets[n].name)] = n], None)
    ELSE Ok([st EXCEPT !.nets = Append(@, n)], None)

\* Schematic.add_net, past its frozen check
AddNetBody(st, n) ==
    IF NetKey(st, st.heapNets[n].name) # 0 THEN Raise(st, "DuplicateName")
    ELSE Ok([st EXCEPT !.nets = Append(@, n)], None)

\* Schematic.add_net
AddNet(st, n) ==
    IF st.frozen THEN Raise(st, "Frozen")
    ELSE AddNetBody(st, n)

\* Mutant: add_component without the frozen gate.
AddComponentUngated(st, c) ==
    IF ComponentKey(st, st.heapComps[c].name) # 0 THEN Raise(st, "DuplicateName")
    ELSE Ok([st EXCEPT !.components = Append(@, c)], None)

\* Schematic.add_component
AddComponent(st, c) ==
    IF st.frozen THEN Raise(st, "Frozen")
    ELSE IF ComponentKey(st, st.heapComps[c].name) # 0 THEN Raise(st, "DuplicateName")
    ELSE Ok([st EXCEPT !.components = Append(@, c)], None)

\* Mutant: connect without the frozen gate.
ConnectUngated(st, net, component, pin) ==
    IF NetByName(st, net).err # "none" THEN Raise(st, "NotFound")
    ELSE IF ComponentByName(st, component).err # "none" THEN Raise(st, "NotFound")
    ELSE NetConnect(st, NetByName(st, net).ret, ComponentByName(st, component).ret, pin)

\* Mutant: connect looks the net and the component up before the frozen gate.
ConnectLateGate(st, net, component, pin) ==
    IF NetByName(st, net).err # "none" THEN Raise(st, "NotFound")
    ELSE IF ComponentByName(st, component).err # "none" THEN Raise(st, "NotFound")
    ELSE IF st.frozen THEN Raise(st, "Frozen")
    ELSE NetConnect(st, NetByName(st, net).ret, ComponentByName(st, component).ret, pin)

\* Schematic.connect, past its frozen check
ConnectBody(st, net, component, pin) ==
    IF NetByName(st, net).err # "none" THEN Raise(st, "NotFound")
    ELSE IF ComponentByName(st, component).err # "none" THEN Raise(st, "NotFound")
    ELSE NetConnect(st, NetByName(st, net).ret, ComponentByName(st, component).ret, pin)

\* Schematic.connect
Connect(st, net, component, pin) ==
    IF st.frozen THEN Raise(st, "Frozen")
    ELSE ConnectBody(st, net, component, pin)

\* Net(net_name): a new Net object on the heap
NewNet(st, name) ==
    [st EXCEPT !.heapNets = Append(@, Net(name, FALSE))]

\* Mutant: connect_create_net makes and adds a net of that name on every call.
ConnectCreateNetAlways(st, net_name, component, pin) ==
    IF st.frozen THEN Raise(st, "Frozen")
    ELSE LET made == NewNet(st, net_name)
             added == AddNet(made, Len(made.heapNets))
         IN IF added.err # "none" THEN added
            ELSE Connect(added.st, net_name, component, pin)

\* Schematic.connect_create_net
ConnectCreateNet(st, net_name, component, pin) ==
    IF st.frozen THEN Raise(st, "Frozen")
    ELSE IF NetKey(st, net_name) = 0
         THEN LET made == NewNet(st, net_name)
                  added == AddNet(made, Len(made.heapNets))
              IN IF added.err # "none" THEN added
                 ELSE Connect(added.st, net_name, component, pin)
    ELSE Connect(st, net_name, component, pin)

\* a.pin(pin) if isinstance(pin, str) else a.pins[pin]: the pin's index, or the error
PinOf(comp, sel) ==
    LET len == Len(comp.pin_names)
    IN IF sel.kind = "str"
       THEN IF PinLookup(comp, sel.s) < 0 THEN [err |-> "NotFound", idx |-> 0]
            ELSE [err |-> "none", idx |-> PinLookup(comp, sel.s)]
       ELSE IF sel.i >= len \/ sel.i < -len THEN [err |-> "OutOfRange", idx |-> 0]
            ELSE [err |-> "none", idx |-> IF sel.i < 0 THEN sel.i + len ELSE sel.i]

\* Mutant: nets are merged whether or not the caller allowed it.
MergeAlways(allow_merge) == TRUE

\* if not allow_merge: raise
MergeAllowed(allow_merge) == allow_merge

\* Mutant: a net of the chosen name is made and registered only when the caller gave
\* no name; a given name must be registered already.
ConnectBothNoCreate(st, a, ia, b, ib, net_name) ==
    LET auto == NewAutoNetName(st)
        made == NewNet(auto.st, auto.name)
    IN IF net_name # "" /\ NetKey(st, net_name) = 0 THEN Raise(st, "NotFound")
       ELSE LET s2 == IF net_name # "" THEN Ok(st, None)
                      ELSE AddNet(made, Len(made.heapNets))
                net == IF net_name # "" THEN st.nets[NetKey(st, net_name)]
                       ELSE Len(made.heapNets)
            IN IF s2.err # "none" THEN s2
               ELSE LET first == NetConnect(s2.st, net, a, IntSel(ia))
                    IN IF first.err # "none" THEN first
                       ELSE LET second == NetConnect(first.st, net, b, IntSel(ib))
                            IN IF second.err # "none" THEN second
                               ELSE Ok(second.st, net)

\* connect_pins, both pins unconnected: the net of the chosen name, then both connects
ConnectBoth(st, a, ia, b, ib, net_name) ==
    LET auto == NewAutoNetName(st)
        s1 == IF net_name # "" THEN st ELSE auto.st
        chosen_name == IF net_name # "" THEN net_name ELSE auto.name
        made == NewNet(s1, chosen_name)
        s2 == IF NetKey(s1, chosen_name) # 0 THEN Ok(s1, None)
              ELSE AddNet(made, Len(made.heapNets))
        net == IF NetKey(s1, chosen_name) # 0 THEN s1.nets[NetKey(s1, chosen_name)]
               ELSE Len(made.heapNets)
    IN IF s2.err # "none" THEN s2
       ELSE LET first == NetConnect(s2.st, net, a, IntSel(ia))
            IN IF first.err # "none" THEN first
               ELSE LET second == NetConnect(first.st, net, b, IntSel(ib))
                    IN IF second.err # "none" THEN second
                       ELSE Ok(second.st, net)

\* Mutant: the call returns nothing.
ReturningNone(r, net) == r

\* the return value of a call that returns `net` unless it raised
Returning(r, net) == IF r.err # "none" THEN r ELSE Ok(r.st, net)

\* the row of connect_pins' decision table a call went through
Via(path, r) == [r EXCEPT !.path = path]

\* Mutant: the allow_merge gate stands before the same-net test.
ConnectPinsGateFirst(st, comp_a, pin_a, comp_b, pin_b, net_name, allow_merge) ==
    IF st.frozen THEN Raise(st, "Frozen")
    ELSE IF ResolveComponent(st, comp_a).err # "none"
         THEN ResolveComponent(st, comp_a)
    ELSE IF ResolveComponent(st, comp_b).err # "none"
         THEN ResolveComponent(st, comp_b)
    ELSE LET a == ResolveComponent(st, comp_a).ret
             b == ResolveComponent(st, comp_b).ret
             p_a == PinOf(st.heapComps[a], pin_a)
             p_b == PinOf(st.heapComps[b], pin_b)
         IN IF p_a.err # "none" THEN Raise(st, p_a.err)
            ELSE IF p_b.err # "none" THEN Raise(st, p_b.err)
            ELSE LET net_a == st.heapComps[a].pin_net[p_a.idx + 1]
                     net_b == st.heapComps[b].pin_net[p_b.idx + 1]
                 IN IF net_a = None /\ net_b = None
                    THEN Via("create", ConnectBoth(st, a, p_a.idx, b, p_b.idx, net_name))
                    ELSE IF net_a # None /\ net_b = None
                    THEN Via("attach_b",
                             Returning(NetConnect(st, net_a, b, IntSel(p_b.idx)), net_a))
                    ELSE IF net_b # None /\ net_a = None
                    THEN Via("attach_a",
                             Returning(NetConnect(st, net_b, a, IntSel(p_a.idx)), net_b))
                    ELSE IF ~allow_merge THEN Via("reject", Raise(st, "UnmergedNets"))
                    ELSE IF net_a = net_b THEN Via("same", Ok(st, net_a))
                    ELSE Via("merge", Returning(MergeNets(st, net_a, net_b), net_a))

\* Schematic.connect_pins, past its frozen check
ConnectPinsBody(st, comp_a, pin_a, comp_b, pin_b, net_name, allow_merge) ==
    IF ResolveComponent(st, comp_a).err # "none"
         THEN ResolveComponent(st, comp_a)
    ELSE IF ResolveComponent(st, comp_b).err # "none"
         THEN ResolveComponent(st, comp_b)
    ELSE LET a == ResolveComponent(st, comp_a).ret
             b == ResolveComponent(st, comp_b).ret
             p_a == PinOf(st.heapComps[a], pin_a)
             p_b == PinOf(st.heapComps[b], pin_b)
         IN IF p_a.err # "none" THEN Raise(st, p_a.err)
            ELSE IF p_b.err # "none" THEN Raise(st, p_b.err)
            ELSE LET net_a == st.heapComps[a].pin_net[p_a.idx + 1]
                     net_b == st.heapComps[b].pin_net[p_b.idx + 1]
                 IN IF net_a = None /\ net_b = None
                    THEN Via("create", ConnectBoth(st, a, p_a.idx, b, p_b.idx, net_name))
                    ELSE IF net_a # None /\ net_b = None
                    THEN Via("attach_b",
                             Returning(NetConnect(st, net_a, b, IntSel(p_b.idx)), net_a))
                    ELSE IF net_b # None /\ net_a = None
                    THEN Via("attach_a",
                             Returning(NetConnect(st, net_b, a, IntSel(p_a.idx)), net_b))
                    ELSE IF net_a = net_b THEN Via("same", Ok(st, net_a))
                    ELSE IF ~MergeAllowed(allow_merge)
                    THEN Via("reject", Raise(st, "UnmergedNets"))
                    ELSE Via("merge", Returning(MergeNets(st, net_a, net_b), net_a))

\* Schematic.connect_pins
ConnectPins(st, comp_a, pin_a, comp_b, pin_b, net_name, allow_merge) ==
    IF st.frozen THEN Raise(st, "Frozen")
    ELSE ConnectPinsBody(st, comp_a, pin_a, comp_b, pin_b, net_name, allow_merge)

\* BaseComponent.connected_nets, run to exhaustion: (p.net for p in self.pins if p.net
\* is not None)
ConnectedNets(st, c) ==
    SelectSeq(st.heapComps[c].pin_net, LAMBDA net : net # None)

\* Schematic.freeze
Freeze(st) == Ok([st EXCEPT !.frozen = TRUE], None)

\* Mutant: with several ground nets the first one is returned.
GroundFirst(st) ==
    LET grounds == SelectSeq(st.nets, LAMBDA n : st.heapNets[n].is_ground)
    IN IF Len(grounds) = 0 THEN Raise(st, "NoGround")
       ELSE Ok(st, grounds[1])

\* Schematic.ground
Ground(st) ==
    LET grounds == SelectSeq(st.nets, LAMBDA n : st.heapNets[n].is_ground)
    IN IF Len(grounds) = 0 THEN Raise(st, "NoGround")
       ELSE IF Len(grounds) > 1 THEN Raise(st, "MultipleGrounds")
       ELSE Ok(st, grounds[1])

\* Schematic.validate: the first unconnected pin in registration, then pin order
UnconnectedPins(st) ==
    UNION { { <<k, i>> : i \in { j \in 0..(Len(st.heapComps[st.components[k]].pin_names) - 1) :
                                     st.heapComps[st.components[k]].pin_net[j + 1] = None } } :
            k \in 1..Len(st.components) }

\* Mutant: the scan reports the last unconnected pin it meets.
LastUnconnected(st) ==
    CHOOSE p \in UnconnectedPins(st) :
        \A q \in UnconnectedPins(st) : q[1] < p[1] \/ (p[1] = q[1] /\ q[2] <= p[2])

FirstUnconnected(st) ==
    CHOOSE p \in UnconnectedPins(st) :
        \A q \in UnconnectedPins(st) : p[1] < q[1] \/ (p[1] = q[1] /\ p[2] <= q[2])

\* f"Component {c.name} has unconnected pin '{p.name}'": the two names in the message
ValidateMessage(st) ==
    LET p == FirstUnconnected(st)
        c == st.heapComps[st.components[p[1]]]
    IN <<c.name, c.pin_names[p[2] + 1]>>

Validate(st) ==
    IF UnconnectedPins(st) = {} THEN Ok(st, None) ELSE Raise(st, "UnconnectedPin")

\* ----------------------------------------------------------- projections

\* for pin_idx in pin_set: the indices of a set of small ints, as CPython iterates them
RECURSIVE Ascending(_)
Ascending(pins) ==
    IF pins = {} THEN <<>>
    ELSE LET idx == CHOOSE i \in pins : \A j \in pins : i <= j
         IN <<idx>> \o Ascending(pins \ {idx})

\* for pin_idx in pin_indices: incidences.append((v, he, int(pin_idx)))
PinIncidences(v, he, pin_indices) ==
    [k \in 1..Cardinality(pin_indices) |-> <<v, he, Ascending(pin_indices)[k]>>]

\* for he, pin_indices in v.connections.items(), from the k-th item on
RECURSIVE VertexIncidences(_, _, _)
VertexIncidences(st, v, k) ==
    LET items == st.heapNets[v].connections
    IN IF k > Len(items) THEN <<>>
       ELSE PinIncidences(v, items[k].comp, items[k].pins) \o VertexIncidences(st, v, k + 1)

\* for v in vertices
RECURSIVE Incidences(_, _)
Incidences(st, vertices) ==
    IF vertices = <<>> THEN <<>>
    ELSE VertexIncidences(st, Head(vertices), 1) \o Incidences(st, Tail(vertices))

\* Mutant: the expansion pops the items it reads off the nets.
StarExpansionDraining(st, vertices) ==
    LET RECURSIVE Drained(_, _)
        Drained(s, vs) ==
            IF vs = <<>> THEN s
            ELSE Drained([s EXCEPT !.heapNets[Head(vs)].connections = <<>>], Tail(vs))
    IN Ok(Drained(st, vertices), Incidences(st, vertices))

\* star_expansion_from_vertices
StarExpansionFromVertices(st, vertices) == Ok(st, Incidences(st, vertices))

\* star_expansion_iter: the generator's position is (vertex, item, pin) in its three
\* loops; a step moves to the next position that has a pin, or finishes.
IterStart == [v |-> 1, he |-> 1, pin |-> 0]

RECURSIVE IterAdvance(_, _, _)
IterAdvance(st, vertices, pos) ==
    IF pos.v > Len(vertices) THEN [done |-> TRUE, pos |-> pos]
    ELSE LET items == st.heapNets[vertices[pos.v]].connections
         IN IF pos.he > Len(items)
            THEN IterAdvance(st, vertices, [v |-> pos.v + 1, he |-> 1, pin |-> 0])
            ELSE IF pos.pin >= Cardinality(items[pos.he].pins)
            THEN IterAdvance(st, vertices, [pos EXCEPT !.he = @ + 1, !.pin = 0])
            ELSE [done |-> FALSE, pos |-> [pos EXCEPT !.pin = @ + 1]]

\* Mutant: the lazy form walks each pin set from its largest index down.
IterYieldDescending(st, vertices, pos) ==
    LET item == st.heapNets[vertices[pos.v]].connections[pos.he]
    IN <<vertices[pos.v], item.comp,
         Ascending(item.pins)[Cardinality(item.pins) + 1 - pos.pin]>>

\* yield (v, he, int(pin_idx)) at a position
IterYield(st, vertices, pos) ==
    LET item == st.heapNets[vertices[pos.v]].connections[pos.he]
    IN <<vertices[pos.v], item.comp, Ascending(item.pins)[pos.pin]>>

\* list(star_expansion_iter(vertices)): the generator run to exhaustion
RECURSIVE IterDrain(_, _, _)
IterDrain(st, vertices, pos) ==
    LET next == IterAdvance(st, vertices, pos)
    IN IF next.done THEN <<>>
       ELSE <<IterYield(st, vertices, next.pos)>> \o IterDrain(st, vertices, next.pos)

\* star_expansion_iter
StarExpansionIter(st, vertices) == Ok(st, IterDrain(st, vertices, IterStart))

\* ------------------------------------------------------ networkx graphs

\* nx.MultiGraph(): nodes in insertion order, each with its attributes, and a list of
\* edges; add_edge appends an edge whatever edges there are already.
EmptyGraph == [nodes |-> <<>>, edges |-> <<>>]

\* node in graph
HasNode(nodes, id) == \E k \in 1..Len(nodes) : nodes[k].id = id

\* graph.add_node(net_id, ..., obj=net, is_ground=...): a new node, or new attribute
\* values on the node of that id
AddNode(nodes, node) ==
    IF HasNode(nodes, node.id)
    THEN [k \in 1..Len(nodes) |-> IF nodes[k].id = node.id THEN node ELSE nodes[k]]
    ELSE Append(nodes, node)

\* for pin_idx in pin_set: graph.add_edge(net_id, comp_id, pin_index=..., ...)
BipartiteEdges(st, net, comp, pin_set) ==
    [k \in 1..Cardinality(pin_set) |->
        [u |-> st.heapNets[net].name, v |-> st.heapComps[comp].name,
         pin_index |-> Ascending(pin_set)[k], net_obj |-> net, comp_obj |-> comp]]

\* for comp, pin_set in net.connections.items(), from the k-th item on
RECURSIVE BipartiteItems(_, _, _, _)
BipartiteItems(st, graph, net, k) ==
    LET items == Shown(st, Connections(st, net))
    IN IF k > Len(items) THEN graph
       ELSE LET comp == items[k].comp
                comp_id == st.heapComps[comp].name
                nodes == IF HasNode(graph.nodes, comp_id) THEN graph.nodes
                         ELSE Append(graph.nodes,
                                     [id |-> comp_id, kind |-> "component", obj |-> comp])
            IN BipartiteItems(st,
                   [nodes |-> nodes,
                    edges |-> graph.edges \o BipartiteEdges(st, net, comp, items[k].pins)],
                   net, k + 1)

\* for net in vertices
RECURSIVE BipartiteNets(_, _, _)
BipartiteNets(st, graph, vertices) ==
    IF vertices = <<>> THEN graph
    ELSE LET net == Head(vertices)
             node == [id |-> st.heapNets[net].name, kind |-> "net", obj |-> net,
                      is_ground |-> st.heapNets[net].is_ground]
         IN BipartiteNets(st,
                BipartiteItems(st, [graph EXCEPT !.nodes = AddNode(@, node)], net, 1),
                Tail(vertices))

\* build_bipartite_graph_from_vertices
BuildBipartiteGraphFromVertices(st, vertices) ==
    Ok(st, BipartiteNets(st, EmptyGraph, vertices))

\* Mutant: a net is a node only when something is connected to it.
RECURSIVE NetNodesConnected(_, _, _)
NetNodesConnected(st, nodes, vertices) ==
    IF vertices = <<>> THEN nodes
    ELSE LET net == Head(vertices)
             node == [id |-> st.heapNets[net].name, obj |-> net,
                      is_ground |-> st.heapNets[net].is_ground]
         IN NetNodesConnected(st,
                IF st.heapNets[net].connections = <<>> THEN nodes ELSE AddNode(nodes, node),
                Tail(vertices))

\* for net in vertices: multi_graph.add_node(net_id, obj=net, is_ground=...)
RECURSIVE NetNodes(_, _, _)
NetNodes(st, nodes, vertices) ==
    IF vertices = <<>> THEN nodes
    ELSE LET net == Head(vertices)
             node == [id |-> st.heapNets[net].name, obj |-> net,
                      is_ground |-> st.heapNets[net].is_ground]
         IN NetNodes(st, AddNode(nodes, node), Tail(vertices))

\* comp_to_nets.setdefault(comp, {}).setdefault(net, set()).update(pin_set): a dict
\* by component object of dicts by net object, both in insertion order
SetDefaultUpdate(comp_to_nets, comp, net, pin_set) ==
    IF \E k \in 1..Len(comp_to_nets) : comp_to_nets[k].comp = comp
    THEN LET k == CHOOSE k \in 1..Len(comp_to_nets) : comp_to_nets[k].comp = comp
             net_map == comp_to_nets[k].net_map
         IN IF \E j \in 1..Len(net_map) : net_map[j].net = net
            THEN LET j == CHOOSE j \in 1..Len(net_map) : net_map[j].net = net
                 IN [comp_to_nets EXCEPT ![k].net_map[j].pins = @ \cup pin_set]
            ELSE [comp_to_nets EXCEPT
                     ![k].net_map = Append(@, [net |-> net, pins |-> pin_set])]
    ELSE Append(comp_to_nets,
                [comp |-> comp, net_map |-> <<[net |-> net, pins |-> pin_set]>>])

\* for comp, pin_set in net.connections.items(), from the k-th item on
RECURSIVE CompToNetsItems(_, _, _, _)
CompToNetsItems(st, comp_to_nets, net, k) ==
    LET items == Shown(st, Connections(st, net))
    IN IF k > Len(items) THEN comp_to_nets
       ELSE CompToNetsItems(st,
                SetDefaultUpdate(comp_to_nets, items[k].comp, net, items[k].pins),
                net, k + 1)

\* for net in vertices (the second loop)
RECURSIVE CompToNets(_, _, _)
CompToNets(st, comp_to_nets, vertices) ==
    IF vertices = <<>> THEN comp_to_nets
    ELSE CompToNets(st, CompToNetsItems(st, comp_to_nets, Head(vertices), 1),
                    Tail(vertices))

\* Mutant: only the nets next to each other in the list are paired.
AdjacentPairs(n) == [k \in 1..(n - 1) |-> <<k, k + 1>>]

\* itertools.combinations(nets, 2), as positions in nets: (1,2), (1,3), ..., (n-1,n)
Combinations(n) ==
    LET RECURSIVE PairsFrom(_, _)
        PairsFrom(i, j) ==
            IF i >= n THEN <<>>
            ELSE IF j > n THEN PairsFrom(i + 1, i + 2)
            ELSE << <<i, j>> >> \o PairsFrom(i, j + 1)
    IN PairsFrom(1, 2)

\* Mutant: the pin map keeps one pin index for each net.
PinMapOnePin(a_id, pins_a, b_id, pins_b) ==
    IF a_id = b_id THEN {<<b_id, {CHOOSE i \in pins_b : TRUE}>>}
    ELSE {<<a_id, {CHOOSE i \in pins_a : TRUE}>>, <<b_id, {CHOOSE i \in pins_b : TRUE}>>}

\* pin_map = {a_id: frozenset(net_map[a]), b_id: frozenset(net_map[b])}: a dict by
\* net name, as its set of (key, value) pairs
PinMap(a_id, pins_a, b_id, pins_b) ==
    IF a_id = b_id THEN {<<b_id, pins_b>>}
    ELSE {<<a_id, pins_a>>, <<b_id, pins_b>>}

\* multi_graph.add_edge(a_id, b_id, component=comp, component_name=comp_name,
\*                      nets=(a_id, b_id), pin_map=pin_map)
NetEdge(st, comp, a, b) ==
    LET a_id == st.heapNets[a.net].name
        b_id == st.heapNets[b.net].name
    IN [u |-> a_id, v |-> b_id, component |-> comp,
        component_name |-> st.heapComps[comp].name, nets |-> <<a_id, b_id>>,
        pin_map |-> PinMap(a_id, a.pins, b_id, b.pins)]

\* Mutant: an edge for every pair of pins, one on each net.
ComponentEdgesPerPin(st, entry) ==
    LET net_list == entry.net_map
        pairs == Combinations(Len(net_list))
        RECURSIVE Repeat(_, _)
        Repeat(k, times) ==
            IF k > Len(pairs) THEN <<>>
            ELSE IF times = 0 THEN Repeat(k + 1, -1)
            ELSE IF times = -1
            THEN Repeat(k, Cardinality(net_list[pairs[k][1]].pins)
                           * Cardinality(net_list[pairs[k][2]].pins))
            ELSE <<NetEdge(st, entry.comp, net_list[pairs[k][1]], net_list[pairs[k][2]])>>
                 \o Repeat(k, times - 1)
    IN Repeat(1, -1)

\* nets = list(net_map.keys()); if len(nets) < 2: continue;
\* for a, b in combinations(nets, 2): add_edge
ComponentEdges(st, entry) ==
    LET net_list == entry.net_map
        pairs == Combinations(Len(net_list))
    IN IF Len(net_list) < 2 THEN <<>>
       ELSE [k \in 1..Len(pairs) |->
                NetEdge(st, entry.comp, net_list[pairs[k][1]], net_list[pairs[k][2]])]

\* for comp, net_map in comp_to_nets.items(), from the k-th item on
RECURSIVE NetEdges(_, _, _)
NetEdges(st, comp_to_nets, k) ==
    IF k > Len(comp_to_nets) THEN <<>>
    ELSE ComponentEdges(st, comp_to_nets[k]) \o NetEdges(st, comp_to_nets, k + 1)

\* build_net_multigraph_from_vertices
BuildNetMultigraphFromVertices(st, vertices) ==
    Ok(st, [nodes |-> NetNodes(st, <<>>, vertices),
            edges |-> NetEdges(st, CompToNets(st, <<>>, vertices), 1)])

\* ------------------------------------------------------- graph contract

\* The values an attribute of a node or an edge has here: no such key, None, a str, or
\* a dict (with no 'nets' key, or with a list of names under it).
Absent == [type |-> "absent", s |-> "", nets_type |-> "absent", nets |-> <<>>]
NoneValue == [type |-> "None", s |-> "", nets_type |-> "absent", nets |-> <<>>]
Str(s) == [type |-> "str", s |-> s, nets_type |-> "absent", nets |-> <<>>]
Dict(nets_type, nets_value) ==
    [type |-> "dict", s |-> "", nets_type |-> nets_type, nets |-> nets_value]

\* ",".join(str(x) for x in nets)
RECURSIVE Join(_)
Join(items) ==
    IF items = <<>> THEN ""
    ELSE IF Len(items) = 1 THEN items[1]
    ELSE items[1] \o "," \o Join(Tail(items))

\* normalize_graph_contract, for the data of one node with key n
NormalizeNode(data) ==
    [data EXCEPT
        !.label = IF @.type = "absent" THEN Str(data.key) ELSE @,
        !.kind = IF @.type = "absent" THEN Str("node") ELSE @,
        !.meta = IF @.type = "absent" THEN Dict("absent", <<>>) ELSE @]

\* normalize_graph_contract, for the data of one edge: meta first, then the label from
\* meta.get("nets"), then kind
NormalizeEdge(data) ==
    LET meta == IF data.meta.type \in {"absent", "None"} THEN Dict("absent", <<>>)
                ELSE data.meta
        label == IF data.label.type # "absent" THEN data.label
                 ELSE IF meta.nets_type = "list" /\ meta.nets # <<>>
                 THEN Str(Join(meta.nets))
                 ELSE Str("")
    IN [data EXCEPT !.meta = meta, !.label = label,
                    !.kind = IF @.type = "absent" THEN Str("edge") ELSE @]

\* normalize_graph_contract: the graph it returns
NormalizeGraphContract(G) ==
    [nodes |-> [k \in 1..Len(G.nodes) |-> NormalizeNode(G.nodes[k])],
     edges |-> [k \in 1..Len(G.edges) |-> NormalizeEdge(G.edges[k])]]

\* validate_graph_contract, the checks on the data of one node or edge: the first
\* problem found, "ok" when there is none
ValidateData(data) ==
    IF data.label.type = "absent" THEN "missing label"
    ELSE IF data.label.type # "str" \/ data.label.s = "" THEN "empty or non-string label"
    ELSE IF data.kind.type # "str" THEN "missing or invalid kind"
    ELSE IF data.meta.type # "dict" THEN "missing or invalid meta"
    ELSE "ok"

\* validate_graph_contract
ValidateGraphContract(G) ==
    LET badNodes == {k \in 1..Len(G.nodes) : ValidateData(G.nodes[k]) # "ok"}
        badEdges == {k \in 1..Len(G.edges) : ValidateData(G.edges[k]) # "ok"}
    IN IF badNodes # {}
       THEN [valid |-> FALSE,
             message |-> ValidateData(G.nodes[CHOOSE k \in badNodes :
                                                  \A j \in badNodes : k <= j])]
       ELSE IF badEdges # {}
       THEN [valid |-> FALSE,
             message |-> ValidateData(G.edges[CHOOSE k \in badEdges :
                                                  \A j \in badEdges : k <= j])]
       ELSE [valid |-> TRUE, message |-> "ok"]

\* The attributes of the contract on the graphs of networkx_utils: the net-projected
\* multigraph sets none of them on its nodes and edges (it sets obj, is_ground,
\* component, component_name, nets and pin_map).
ProjectedData(graph) ==
    [nodes |-> [k \in 1..Len(graph.nodes) |->
                   [key |-> graph.nodes[k].id, label |-> Absent, kind |-> Absent,
                    meta |-> Absent]],
     edges |-> [k \in 1..Len(graph.edges) |->
                   [u |-> graph.edges[k].u, v |-> graph.edges[k].v, label |-> Absent,
                    kind |-> Absent, meta |-> Absent]]]

\* The same graph after a caller has set label and meta on all of its edges.
WithEdgeData(G, label, meta) ==
    [G EXCEPT !.edges = [k \in 1..Len(G.edges) |->
                            [G.edges[k] EXCEPT !.label = label, !.meta = meta]]]

\* ------------------------------------------------------------- behaviour

\* The last call that changed the state: the error it raised, if any, and the way it
\* went ("net": a call on a Net object; for connect_pins the row of its decision table;
\* "" otherwise).
NoCall == [err |-> "none", via |-> "init"]

\* No mutator call is past its frozen check.
Idle ==
    [op |-> "idle", net |-> None, net_name |-> "", component |-> "",
     pin_a |-> 0, pin_b |-> 0, allow_merge |-> FALSE]

\* One caller: every call runs from its first line to its last before the next.
Sequential == [serialized |-> TRUE, lock |-> "free", mutator |-> Idle]

Init ==
    /\ nets = <<>>
    /\ components = <<>>
    /\ frozen = FALSE
    /\ anon_net_counter = 0
    /\ heapNets \in NetWorlds
    /\ heapComps \in CompWorlds
    /\ last = NoCall
    /\ pc = Sequential

\* The calls the model makes stay within the bounds: a call creates a Net object only
\* while fewer than MaxNets are alive.
Within(r) ==
    \/ Len(r.st.heapNets) = Len(heapNets)
    \/ Len(r.st.heapNets) <= MaxNets

\* The step a call makes: the state it leaves and, when it changed the state, the
\* record of the call.
Step(r) ==
    /\ Within(r)
    /\ nets' = r.st.nets
    /\ components' = r.st.components
    /\ frozen' = r.st.frozen
    /\ anon_net_counter' = r.st.anon_net_counter
    /\ heapNets' = r.st.heapNets
    /\ heapComps' = r.st.heapComps
    /\ last' = IF r.st = St THEN last ELSE [err |-> r.err, via |-> r.path]
    /\ pc' = pc


\* The objects a caller can hold.
NetObjects == 1..Len(heapNets)
CompObjects == 1..Len(heapComps)

\* The pins that exist: (component, index).
Pins ==
    UNION { {<<c, i>> : i \in 0..(Len(heapComps[c].pin_names) - 1)} : c \in CompObjects }

\* net.connect(component, pin), on any Net object the caller holds
DoNetConnect ==
    \E n \in NetObjects, c \in CompObjects, sel \in PinSelectors :
        Step(Via("net", NetConnect(St, n, c, sel)))

\* Net.__iadd__
NetIAdd(st, n, other) ==
    IF Len(other) # 2 THEN Raise(st, "TypeError")
    ELSE NetConnect(st, n, other[1], other[2])

\* net += (component, pin), or net += something that is no pair
DoNetIAdd ==
    \E n \in NetObjects :
        \/ \E c \in CompObjects, sel \in {IntSel(0), StrSel("2")} :
              Step(Via("net", NetIAdd(St, n, <<c, sel>>)))
        \/ Step(Via("net", NetIAdd(St, n, <<>>)))

DoAddNet ==
    \E n \in NetObjects : Step(AddNet(St, n))

DoAddComponent ==
    \E c \in CompObjects : Step(AddComponent(St, c))

DoConnect ==
    \E net \in NetNames, component \in CompNames, sel \in PinSelectors :
        Step(Connect(St, net, component, sel))

DoConnectCreateNet ==
    \E net \in NetNames, component \in CompNames, sel \in PinSelectors :
        Step(ConnectCreateNet(St, net, component, sel))

\* The argument lists of connect_pins: every pair of pins by instance and index under
\* every net_name and allow_merge, and every other form of selector on either side
\* against the first pin of the first component.
Call(comp_a, pin_a, comp_b, pin_b, net_name, allow_merge) ==
    [comp_a |-> comp_a, pin_a |-> pin_a, comp_b |-> comp_b, pin_b |-> pin_b,
     net_name |-> net_name, allow_merge |-> allow_merge]

OddSelectors ==
    {<<CompName(s), IntSel(0)>> : s \in CompNames}
    \cup {<<CompObj(c), sel>> : c \in CompObjects,
                                sel \in {IntSel(-1), IntSel(MaxPinSel), StrSel("2")}}

ConnectPinsCalls ==
    {Call(CompObj(p[1]), IntSel(p[2]), CompObj(q[1]), IntSel(q[2]), name, merge) :
        p \in Pins, q \in Pins, name \in NetNames \cup {""}, merge \in BOOLEAN}
    \cup {Call(x[1], x[2], CompObj(1), IntSel(0), "", FALSE) : x \in OddSelectors}
    \cup {Call(CompObj(1), IntSel(0), x[1], x[2], "", TRUE) : x \in OddSelectors}

ConnectPinsOf(st, call) ==
    ConnectPins(st, call.comp_a, call.pin_a, call.comp_b, call.pin_b,
                call.net_name, call.allow_merge)

DoConnectPins ==
    \E call \in ConnectPinsCalls : Step(ConnectPinsOf(St, call))

DoFreeze == Step(Freeze(St))

DoGround == Step(Ground(St))

DoValidate == Step(Validate(St))

DoNet == \E name \in NetNames : Step(NetByName(St, name))

DoComponent == \E name \in CompNames : Step(ComponentByName(St, name))

\* The operations of Schematic.
SchematicNext ==
    \/ DoAddNet
    \/ DoAddComponent
    \/ DoConnect
    \/ DoConnectCreateNet
    \/ DoConnectPins
    \/ DoFreeze
    \/ DoGround
    \/ DoValidate
    \/ DoNet
    \/ DoComponent

\* Every public operation: those of Schematic and those of the Net objects.
Next ==
    \/ SchematicNext
    \/ DoNetConnect
    \/ DoNetIAdd

Spec == Init /\ [][Next]_vars

\* A caller that constructs its components while it uses the schematic.
NewComponent(st, name, pin_names) ==
    LET made == BaseComponentInit(name, pin_names)
    IN IF made.err # "none" THEN Raise(st, made.err)
       ELSE Ok([st EXCEPT !.heapComps = Append(@, made.ret)], Len(st.heapComps) + 1)

DoNewComponent ==
    \E pin_names \in PinNameLists :
        /\ Len(heapComps) < MaxComponents
        /\ Step(NewComponent(St, "R1", pin_names))

ComponentConnectPins ==
    \E p \in Pins, q \in Pins, merge \in BOOLEAN :
        Step(ConnectPinsOf(St, Call(CompObj(p[1]), IntSel(p[2]), CompObj(q[1]),
                                    IntSel(q[2]), "", merge)))

ComponentInit ==
    /\ nets = <<>>
    /\ components = <<>>
    /\ frozen = FALSE
    /\ anon_net_counter = 0
    /\ heapNets \in NetWorlds
    /\ heapComps = <<>>
    /\ last = NoCall
    /\ pc = Sequential

ComponentNext ==
    \/ DoNewComponent
    \/ DoAddNet
    \/ DoAddComponent
    \/ DoNetConnect
    \/ DoConnect
    \/ DoConnectCreateNet
    \/ ComponentConnectPins

ComponentSpec == ComponentInit /\ [][ComponentNext]_vars

\* A caller that wires one component to its own nets and merges them.
MergeNetConnect ==
    \E n \in NetObjects, p \in Pins : Step(Via("net", NetConnect(St, n, p[1], IntSel(p[2]))))

MergeConnectPins ==
    \E p \in Pins, q \in Pins :
        Step(ConnectPinsOf(St, Call(CompObj(p[1]), IntSel(p[2]), CompObj(q[1]),
                                    IntSel(q[2]), "", TRUE)))

DoConnectedNets ==
    \E c \in CompObjects : Step(Ok(St, ConnectedNets(St, c)))

MergeInit ==
    /\ nets = <<>>
    /\ components = <<>>
    /\ frozen = FALSE
    /\ anon_net_counter = 0
    /\ heapNets \in MergeNetWorlds
    /\ heapComps \in MergeCompWorlds
    /\ last = NoCall
    /\ pc = Sequential

MergeNext ==
    \/ DoAddNet
    \/ DoAddComponent
    \/ MergeNetConnect
    \/ MergeConnectPins
    \/ DoConnectedNets

MergeSpec == MergeInit /\ [][MergeNext]_vars

\* Callers that use the Schematic's operations only.
SchematicSpec == Init /\ [][SchematicNext]_vars

\* The same operations for a caller whose objects clash in name.
TwinInit ==
    /\ nets = <<>>
    /\ components = <<>>
    /\ frozen = FALSE
    /\ anon_net_counter = 0
    /\ heapNets \in TwinNetWorlds
    /\ heapComps \in TwinCompWorlds
    /\ last = NoCall
    /\ pc = Sequential

TwinSpec == TwinInit /\ [][SchematicNext]_vars

\* The same operations for a caller who lets connect_pins name the nets.
AutoInit ==
    /\ nets = <<>>
    /\ components = <<>>
    /\ frozen = FALSE
    /\ anon_net_counter = 0
    /\ heapNets \in AutoNetWorlds
    /\ heapComps \in CompWorlds
    /\ last = NoCall
    /\ pc = Sequential

AutoSpec == AutoInit /\ [][SchematicNext]_vars

\* The input sequences the projections are called with: up to three of the Net objects
\* alive, in any order, the same one more than once included.
MaxVertices == 3
VertexInputs ==
    UNION { [1..k -> NetObjects] : k \in 0..MaxVertices }

\* A call of the graph builder's fixture; it makes at most one net per name.
Build(r) ==
    /\ nets' = r.st.nets
    /\ components' = r.st.components
    /\ frozen' = r.st.frozen
    /\ anon_net_counter' = r.st.anon_net_counter
    /\ heapNets' = r.st.heapNets
    /\ heapComps' = r.st.heapComps
    /\ last' = IF r.st = St THEN last ELSE [err |-> r.err, via |-> r.path]
    /\ pc' = pc

GraphAddComponent ==
    \E c \in CompObjects : Build(AddComponent(St, c))

GraphConnectCreateNet ==
    \E net \in GraphNetNames, component \in CompNames, sel \in GraphSelectors :
        Build(ConnectCreateNet(St, net, component, sel))

GraphStarExpansion ==
    \E vertices \in VertexInputs :
        \/ Build(StarExpansionFromVertices(St, vertices))
        \/ Build(StarExpansionIter(St, vertices))

GraphBipartite ==
    \E vertices \in VertexInputs : Build(BuildBipartiteGraphFromVertices(St, vertices))

GraphNetMultigraph ==
    \E vertices \in VertexInputs : Build(BuildNetMultigraphFromVertices(St, vertices))

\* The label and meta a caller may have set on the edges before normalizing.
EdgeLabels == {Absent, Str("R1")}
EdgeMetas == {Absent, NoneValue, Dict("absent", <<>>), Dict("list", <<"VCC", "VOUT">>)}
ContractInputs ==
    {WithEdgeData(ProjectedData(BuildNetMultigraphFromVertices(St, nets).ret),
                  label, meta) :
        label \in EdgeLabels, meta \in EdgeMetas}

GraphNormalize ==
    \E G \in ContractInputs :
        \/ Build(Ok(St, NormalizeGraphContract(G)))
        \/ Build(Ok(St, ValidateGraphContract(NormalizeGraphContract(G))))

\* ------------------------------------------------------------------ threads
\* Two threads on one schematic: one calls mutators, the other calls freeze().  A
\* mutator call is two steps, its frozen check and the rest of its body; freeze() is
\* one assignment.  When the calls are serialized, a call holds the lock from its
\* first line to its last.

MutatorCall(op, net, net_name, component, pin_a, pin_b, allow_merge) ==
    [op |-> op, net |-> net, net_name |-> net_name, component |-> component,
     pin_a |-> pin_a, pin_b |-> pin_b, allow_merge |-> allow_merge]

\* The mutator calls of the thread: add_net(net), connect(net_name, component, pin_a)
\* and connect_pins(component, pin_a, component, pin_b, net_name, allow_merge).
ThreadCalls ==
    {MutatorCall("add_net", n, "", "", 0, 0, FALSE) : n \in NetObjects}
    \cup {MutatorCall("connect", None, name, "R1", i, 0, FALSE) :
            name \in NetNames, i \in 0..MaxPinSel}
    \cup {MutatorCall("connect_pins", None, name, "R1", i, j, merge) :
            name \in {"", "A"}, i \in 0..MaxPinSel, j \in 0..MaxPinSel,
            merge \in BOOLEAN}

\* Mutant: the frozen check lets every call through.
GateOpen(st) == FALSE

\* if self._frozen: raise RuntimeError(...), the first statement of a mutator
Gate(st) == st.frozen

\* The statements of a mutator after its frozen check.
ThreadBody(st, call) ==
    IF call.op = "add_net" THEN AddNetBody(st, call.net)
    ELSE IF call.op = "connect"
         THEN ConnectBody(st, call.net_name, call.component, IntSel(call.pin_a))
    ELSE ConnectPinsBody(st, CompName(call.component), IntSel(call.pin_a),
                         CompName(call.component), IntSel(call.pin_b),
                         call.net_name, call.allow_merge)

\* The step of a thread: the state it leaves, the record of the call when it changed
\* the state ("late" when the schematic was frozen already), and the threads after it.
ThreadStep(r, threads) ==
    /\ Within(r)
    /\ nets' = r.st.nets
    /\ components' = r.st.components
    /\ frozen' = r.st.frozen
    /\ anon_net_counter' = r.st.anon_net_counter
    /\ heapNets' = r.st.heapNets
    /\ heapComps' = r.st.heapComps
    /\ last' = IF r.st = St THEN last
               ELSE [err |-> r.err, via |-> IF frozen THEN "late" ELSE r.path]
    /\ pc' = threads

\* The lock can be taken; callers that do not serialize their calls never take it.
Acquirable(threads) == threads.lock = "free"

\* The mutator thread enters a call and passes its frozen check (on a frozen
\* schematic the call raises Frozen and is over).
MutatorCheck ==
    \E call \in ThreadCalls :
        /\ pc.mutator = Idle
        /\ Acquirable(pc)
        /\ ~Gate(St)
        /\ ThreadStep(Ok(St, None),
                      [pc EXCEPT !.mutator = call,
                                 !.lock = IF pc.serialized THEN "mutator" ELSE @])

\* The mutator thread runs the rest of the call and returns.
MutatorApply ==
    /\ pc.mutator # Idle
    /\ ThreadStep(ThreadBody(St, pc.mutator),
                  [pc EXCEPT !.mutator = Idle, !.lock = "free"])

\* The other thread calls freeze().
ThreadFreeze ==
    /\ Acquirable(pc)
    /\ ThreadStep(Freeze(St), pc)

\* A schematic with its component R1 registered, shared by the two threads, which
\* serialize their calls by one lock or do not.
ThreadInit ==
    /\ nets = <<>>
    /\ components = <<1>>
    /\ frozen = FALSE
    /\ anon_net_counter = 0
    /\ heapNets \in NetWorlds
    /\ heapComps \in CompWorlds
    /\ last = NoCall
    /\ pc \in {[serialized |-> s, lock |-> "free", mutator |-> Idle] : s \in BOOLEAN}

ThreadNext ==
    \/ MutatorCheck
    \/ MutatorApply
    \/ ThreadFreeze

ThreadSpec == ThreadInit /\ [][ThreadNext]_vars

ClashConnectCreateNet ==
    \E net \in ClashNetNames, component \in CompNames, sel \in GraphSelectors :
        Build(ConnectCreateNet(St, net, component, sel))

\* build_bipartite_graph_from_vertices(schematic._nets.values())
ClashBipartite == Build(BuildBipartiteGraphFromVertices(St, nets))

ClashInit ==
    /\ nets = <<>>
    /\ components = <<>>
    /\ frozen = FALSE
    /\ anon_net_counter = 0
    /\ heapNets = <<>>
    /\ heapComps \in ClashCompWorlds
    /\ last = NoCall
    /\ pc = Sequential

ClashNext ==
    \/ GraphAddComponent
    \/ ClashConnectCreateNet
    \/ ClashBipartite

ClashSpec == ClashInit /\ [][ClashNext]_vars

GraphInit ==
    /\ nets = <<>>
    /\ components = <<>>
    /\ frozen = FALSE
    /\ anon_net_counter = 0
    /\ heapNets = <<>>
    /\ heapComps \in GraphCompWorlds
    /\ last = NoCall
    /\ pc = Sequential

GraphNext ==
    \/ GraphAddComponent
    \/ GraphConnectCreateNet
    \/ GraphStarExpansion
    \/ GraphBipartite
    \/ GraphNetMultigraph
    \/ GraphNormalize

GraphSpec == GraphInit /\ [][GraphNext]_vars

\* ----------------------------------------------------------------- claims

\* The vocabulary of the claims, read off the state.
Registered(st, n) == \E k \in 1..Len(st.nets) : st.nets[k] = n
RegisteredComp(st, c) == \E k \in 1..Len(st.components) : st.components[k] = c
PinNet(st, c, i) == st.heapComps[c].pin_net[i + 1]
HasEntry(st, n, c, i) == i \in ConnectionsOf(st.heapNets[n], c)
DegreeSum(st) ==
    LET RECURSIVE Sum(_)
        Sum(k) == IF k = 0 THEN 0 ELSE Degree(st.heapNets[st.nets[k]]) + Sum(k - 1)
    IN Sum(Len(st.nets))

\* The pin a selector of Net.connect names: a valid index, or an existing pin name.
Names(sel, c, i) ==
    \/ sel.kind = "int" /\ sel.i = i
    \/ sel.kind = "str" /\ heapComps[c].pin_names[i + 1] = sel.s

\* The two pins a connect_pins call names, when both components and both pins resolve.
Resolves(call) ==
    /\ ResolveComponent(St, call.comp_a).err = "none"
    /\ ResolveComponent(St, call.comp_b).err = "none"
    /\ PinOf(heapComps[ResolveComponent(St, call.comp_a).ret], call.pin_a).err = "none"
    /\ PinOf(heapComps[ResolveComponent(St, call.comp_b).ret], call.pin_b).err = "none"
CompA(call) == ResolveComponent(St, call.comp_a).ret
CompB(call) == ResolveComponent(St, call.comp_b).ret
PinA(call) == PinOf(heapComps[CompA(call)], call.pin_a).idx
PinB(call) == PinOf(heapComps[CompB(call)], call.pin_b).idx
NetA(call) == PinNet(St, CompA(call), PinA(call))
NetB(call) == PinNet(St, CompB(call), PinB(call))

\* connect_pins on an unfrozen schematic finds the two pins on two different nets.
OnDifferentNets(call) ==
    /\ ~frozen
    /\ Resolves(call)
    /\ NetA(call) # None /\ NetB(call) # None /\ NetA(call) # NetB(call)

\* C1 (Exclusivity): in every state reached through the Schematic's operations, for
\* every registered component and each of its pins, at most one registered net has
\* the pin in its connections, and the pin's net is None or has the pin in its
\* connections.
C1_Exclusivity ==
    \A p \in Pins :
        RegisteredComp(St, p[1]) =>
            /\ Cardinality({n \in NetObjects :
                              Registered(St, n) /\ HasEntry(St, n, p[1], p[2])}) <= 1
            /\ \/ PinNet(St, p[1], p[2]) = None
               \/ HasEntry(St, PinNet(St, p[1], p[2]), p[1], p[2])

\* C2 (Lockstep): every (component, pin index) in the connections of any Net object,
\* a merged-away source net included, has that Net as the pin's net.
C2_Lockstep ==
    \A n \in NetObjects, p \in Pins :
        HasEntry(St, n, p[1], p[2]) => PinNet(St, p[1], p[2]) = n

\* C3 (Error atomicity): a Schematic mutator call (add_net, add_component, connect,
\* connect_create_net, connect_pins) that raises leaves the registries, every net's
\* connections, every pin's net and the auto-net counter as they were.
Atomic(r) == r.err # "none" => r.st = St
C3_ErrorAtomicity ==
    /\ \A n \in NetObjects : Atomic(AddNet(St, n))
    /\ \A c \in CompObjects : Atomic(AddComponent(St, c))
    /\ \A net \in NetNames, component \in CompNames, sel \in PinSelectors :
          /\ Atomic(Connect(St, net, component, sel))
          /\ Atomic(ConnectCreateNet(St, net, component, sel))
    /\ \A call \in ConnectPinsCalls : Atomic(ConnectPinsOf(St, call))

\* C4 (Merge rejection): connect_pins without allow_merge on two pins of two different
\* nets (on a schematic that is not frozen: the frozen gate comes first) fails with
\* UnmergedNets and changes nothing.
C4_MergeRejection ==
    \A call \in ConnectPinsCalls :
        (OnDifferentNets(call) /\ ~call.allow_merge) =>
            /\ ConnectPinsOf(St, call).err = "UnmergedNets"
            /\ ConnectPinsOf(St, call).st = St

\* Two registered nets hold one pin each, and connecting the two pins is refused.
C4_Witness ==
    \E call \in ConnectPinsCalls :
        /\ OnDifferentNets(call) /\ ~call.allow_merge
        /\ Registered(St, NetA(call)) /\ Registered(St, NetB(call))
        /\ ConnectPinsOf(St, call).err = "UnmergedNets"

\* C5 (Merge acceptance): connect_pins with allow_merge on pins of two different nets
\* net_a and net_b of the schematic (not frozen, net_b registered) returns net_a under
\* its name; every pin that was on net_a or net_b is on net_a, net_a's connections are
\* the union of the two former connection sets, and net_b has left the registry.
C5_MergeAcceptance ==
    \A call \in ConnectPinsCalls :
        (OnDifferentNets(call) /\ call.allow_merge /\ Registered(St, NetB(call))) =>
            LET r == ConnectPinsOf(St, call)
                a == NetA(call)
                b == NetB(call)
            IN /\ r.err = "none"
               /\ r.ret = a
               /\ r.st.heapNets[a].name = heapNets[a].name
               /\ \A p \in Pins :
                     PinNet(St, p[1], p[2]) \in {a, b} => PinNet(r.st, p[1], p[2]) = a
               /\ \A c \in CompObjects :
                     ConnectionsOf(r.st.heapNets[a], c) =
                        ConnectionsOf(heapNets[a], c) \cup ConnectionsOf(heapNets[b], c)
               /\ ~Registered(r.st, b)

\* A merge has happened: its source net is off the registry and its pins are on a
\* registered net that holds them.
C5_Witness ==
    /\ last = [err |-> "none", via |-> "merge"]
    /\ \E b \in NetObjects, p \in Pins :
          /\ ~Registered(St, b)
          /\ HasEntry(St, b, p[1], p[2])
          /\ PinNet(St, p[1], p[2]) # b
          /\ Registered(St, PinNet(St, p[1], p[2]))
          /\ HasEntry(St, PinNet(St, p[1], p[2]), p[1], p[2])

\* C6 (Merge preserves total degree): merging registered net B into a distinct
\* registered net A gives A the degree of A plus the degree of B, leaves the sum of the
\* degrees of the registered nets unchanged, and takes B off the registry.
C6_MergeDegree ==
    \A call \in ConnectPinsCalls :
        (/\ OnDifferentNets(call) /\ call.allow_merge
         /\ Registered(St, NetA(call)) /\ Registered(St, NetB(call))) =>
            LET r == ConnectPinsOf(St, call)
            IN /\ Degree(r.st.heapNets[NetA(call)]) =
                      Degree(heapNets[NetA(call)]) + Degree(heapNets[NetB(call)])
               /\ DegreeSum(r.st) = DegreeSum(St)
               /\ ~Registered(r.st, NetB(call))

\* C7 (Frozen rejection): on a frozen schematic add_net, add_component, connect,
\* connect_create_net and connect_pins (with or without allow_merge) fail with Frozen
\* and change nothing; nets, components, net(name), component(name), ground() and
\* validate() answer after freeze() as they did before it.
Rejected(r) == r.err = "Frozen" /\ r.st = St
SameAnswer(r, s) == r.err = s.err /\ r.ret = s.ret
C7_FrozenRejection ==
    /\ frozen =>
          /\ \A n \in NetObjects : Rejected(AddNet(St, n))
          /\ \A c \in CompObjects : Rejected(AddComponent(St, c))
          /\ \A net \in NetNames, component \in CompNames, sel \in PinSelectors :
                /\ Rejected(Connect(St, net, component, sel))
                /\ Rejected(ConnectCreateNet(St, net, component, sel))
          /\ \A call \in ConnectPinsCalls : Rejected(ConnectPinsOf(St, call))
    /\ LET after == Freeze(St).st
       IN /\ after.nets = nets
          /\ after.components = components
          /\ SameAnswer(Ground(after), Ground(St))
          /\ SameAnswer(Validate(after), Validate(St))
          /\ \A name \in NetNames : SameAnswer(NetByName(after, name), NetByName(St, name))
          /\ \A name \in CompNames :
                SameAnswer(ComponentByName(after, name), ComponentByName(St, name))

\* The schematic is frozen with a registered net, a registered component with a free
\* pin and an unregistered net: only the frozen flag stands in the mutators' way.
C7_Witness ==
    /\ frozen
    /\ \E n \in NetObjects, m \in NetObjects, p \in Pins :
          /\ Registered(St, n) /\ RegisteredComp(St, p[1])
          /\ PinNet(St, p[1], p[2]) = None
          /\ NetKey(St, heapNets[m].name) = 0
          /\ AddNet(St, m).err = "Frozen"
          /\ Connect(St, heapNets[n].name, heapComps[p[1]].name, IntSel(p[2])).err = "Frozen"

\* C8 (Freeze is final), as claimed: once frozen, frozen stays true and the registries,
\* every registered net's connections and every pin's net never change again, whatever
\* public operation follows, direct Net.connect and net += included.
C8_FreezeFinal ==
    [][frozen =>
          /\ frozen'
          /\ nets' = nets /\ components' = components
          /\ \A n \in NetObjects :
                Registered(St, n) => heapNets'[n].connections = heapNets[n].connections
          /\ heapComps' = heapComps]_vars

\* C8, amended: once frozen, frozen stays true, the registries and the auto-net counter
\* never change, and no operation of the Schematic changes a net's connections or a
\* pin's net; only calls on a Net object (connect, +=), which do not consult the frozen
\* flag, still do.
C8_FreezeFinalSchematic ==
    [][frozen =>
          /\ frozen'
          /\ nets' = nets /\ components' = components
          /\ anon_net_counter' = anon_net_counter
          /\ (heapNets' # heapNets \/ heapComps' # heapComps) => last'.via = "net"]_vars

\* After the freeze a call on a registered Net object has attached a pin.
C8_Witness ==
    /\ frozen
    /\ last = [err |-> "none", via |-> "net"]
    /\ \E p \in Pins :
          PinNet(St, p[1], p[2]) # None /\ Registered(St, PinNet(St, p[1], p[2]))

\* C9 (Round-trip of connect): when net.connect(c, sel) succeeds, sel names a pin idx of
\* c (by index or by name), that pin's net is the net, idx is in net.connections[c],
\* the net's degree has grown by one, and no other pin and no other net has changed.
C9_ConnectRoundTrip ==
    \A n \in NetObjects, c \in CompObjects, sel \in PinSelectors :
        LET r == NetConnect(St, n, c, sel)
        IN r.err = "none" =>
              \E p \in Pins :
                 /\ p[1] = c /\ Names(sel, c, p[2])
                 /\ PinNet(r.st, c, p[2]) = n
                 /\ HasEntry(r.st, n, c, p[2])
                 /\ Degree(r.st.heapNets[n]) = Degree(heapNets[n]) + 1
                 /\ \A q \in Pins : q # p => PinNet(r.st, q[1], q[2]) = PinNet(St, q[1], q[2])
                 /\ \A m \in NetObjects : m # n => r.st.heapNets[m] = heapNets[m]
                 /\ Len(r.st.heapNets) = Len(heapNets)

\* A call on a Net object has attached a pin: the pin and the net refer to each other.
C9_Witness ==
    /\ last = [err |-> "none", via |-> "net"]
    /\ \E n \in NetObjects, p \in Pins :
          PinNet(St, p[1], p[2]) = n /\ HasEntry(St, n, p[1], p[2])

\* C10 (AlreadyConnected): Net.connect on a pin that has a net, another net or this
\* same net, fails with AlreadyConnected and changes nothing.
C10_AlreadyConnected ==
    \A n \in NetObjects, p \in Pins, sel \in PinSelectors :
        (Names(sel, p[1], p[2]) /\ PinNet(St, p[1], p[2]) # None) =>
            /\ NetConnect(St, n, p[1], sel).err = "AlreadyConnected"
            /\ NetConnect(St, n, p[1], sel).st = St

\* A pin is on a net, and connecting it again to that net and to another net both fail.
C10_Witness ==
    \E n \in NetObjects, m \in NetObjects, p \in Pins :
        /\ n # m
        /\ PinNet(St, p[1], p[2]) = n
        /\ NetConnect(St, n, p[1], IntSel(p[2])).err = "AlreadyConnected"
        /\ NetConnect(St, m, p[1], IntSel(p[2])).err = "AlreadyConnected"

\* C11 (Invalid pin selector): Net.connect with an integer selector outside
\* [0, pin_count), negative integers included, fails with OutOfRange; with a string
\* that names no pin of the component it fails with NotFound; either way nothing changes.
C11_InvalidSelector ==
    \A n \in NetObjects, c \in CompObjects, sel \in PinSelectors :
        LET r == NetConnect(St, n, c, sel)
            pin_count == Len(heapComps[c].pin_names)
        IN /\ (sel.kind = "int" /\ (sel.i < 0 \/ sel.i >= pin_count)) =>
                 (r.err = "OutOfRange" /\ r.st = St)
           /\ (sel.kind = "str" /\ \A i \in 1..pin_count : heapComps[c].pin_names[i] # sel.s) =>
                 (r.err = "NotFound" /\ r.st = St)

\* A net holds a pin of a component while a negative index, an index past the
\* component's last pin and a name the component lacks are each refused.
C11_Witness ==
    \E n \in NetObjects, c \in CompObjects :
        /\ Degree(heapNets[n]) > 0
        /\ PinNet(St, c, Len(heapComps[c].pin_names) - 1) = None
        /\ NetConnect(St, n, c, IntSel(-1)).err = "OutOfRange"
        /\ NetConnect(St, n, c, IntSel(Len(heapComps[c].pin_names))).err = "OutOfRange"
        /\ \E sel \in PinSelectors : NetConnect(St, n, c, sel).err = "NotFound"

\* connect_pins on an unfrozen schematic finds the two pins on one and the same net.
OnSameNet(call) ==
    /\ ~frozen
    /\ Resolves(call)
    /\ NetA(call) # None /\ NetA(call) = NetB(call)

\* C12 (Idempotent no-op): connect_pins on two pins that are already on the same net
\* (on a schematic that is not frozen) returns that net and changes nothing, whatever
\* net_name and allow_merge are.
C12_SameNetNoOp ==
    \A call \in ConnectPinsCalls :
        OnSameNet(call) =>
            /\ ConnectPinsOf(St, call).err = "none"
            /\ ConnectPinsOf(St, call).ret = NetA(call)
            /\ ConnectPinsOf(St, call).st = St

\* Two different pins are on one registered net, and connecting them again succeeds
\* under a net_name of another net and without allow_merge.
C12_Witness ==
    \E call \in ConnectPinsCalls :
        /\ OnSameNet(call)
        /\ <<CompA(call), PinA(call)>> # <<CompB(call), PinB(call)>>
        /\ Registered(St, NetA(call))
        /\ call.net_name # "" /\ call.net_name # heapNets[NetA(call)].name
        /\ ~call.allow_merge
        /\ ConnectPinsOf(St, call).err = "none"

\* A component instance handed to connect_pins that is not the object in the registry.
Stranger(comp) == comp.kind = "obj" /\ ~RegisteredComp(St, comp.o)

\* C13 (NotRegistered): connect_pins (on a schematic that is not frozen) given a
\* component instance that is not the object held in the component registry, one that
\* shares its name with a registered component included, fails with NotRegistered and
\* changes nothing.
C13_NotRegistered ==
    \A call \in ConnectPinsCalls :
        (/\ ~frozen
         /\ \/ Stranger(call.comp_a)
            \/ ResolveComponent(St, call.comp_a).err = "none" /\ Stranger(call.comp_b)) =>
            /\ ConnectPinsOf(St, call).err = "NotRegistered"
            /\ ConnectPinsOf(St, call).st = St

\* connect_pins on an unfrozen schematic, without net_name, finds two different pins,
\* both unconnected.
AutoNamed(call) ==
    /\ ~frozen
    /\ Resolves(call)
    /\ NetA(call) = None /\ NetB(call) = None
    /\ call.net_name = ""

\* C14 (Fresh auto-net): connect_pins without net_name on two different unconnected
\* pins returns a net that was not registered before, under the name N$<counter>,
\* which no other registered net carries; the net is registered and its connections
\* are exactly the two pins.
C14_FreshAutoNet ==
    \A call \in ConnectPinsCalls :
        (AutoNamed(call) /\ <<CompA(call), PinA(call)>> # <<CompB(call), PinB(call)>>) =>
            LET r == ConnectPinsOf(St, call)
            IN /\ r.err = "none"
               /\ ~Registered(St, r.ret)
               /\ Registered(r.st, r.ret)
               /\ r.st.heapNets[r.ret].name = AutoName(r.st.anon_net_counter)
               /\ \A n \in 1..Len(r.st.heapNets) :
                     (Registered(r.st, n) /\ n # r.ret) =>
                         r.st.heapNets[n].name # r.st.heapNets[r.ret].name
               /\ \A p \in Pins :
                     HasEntry(r.st, r.ret, p[1], p[2]) <=>
                        p \in {<<CompA(call), PinA(call)>>, <<CompB(call), PinB(call)>>}

\* The auto-net counter a call leaves.
Counter(r) == r.st.anon_net_counter

\* C15 (Auto-net naming): the counter only ever increases: a connect_pins call that
\* names its net itself advances it by one and uses the name N$<new counter>, every
\* other call leaves it alone, and the names N$1 .. N$<counter + 1> are pairwise
\* different, so an auto-generated name is never used twice.
C15_AutoNaming ==
    /\ \A call \in ConnectPinsCalls :
          LET r == ConnectPinsOf(St, call)
          IN IF AutoNamed(call)
             THEN /\ Counter(r) = anon_net_counter + 1
                  /\ PinNet(r.st, CompA(call), PinA(call)) # None
                  /\ r.st.heapNets[PinNet(r.st, CompA(call), PinA(call))].name =
                        AutoName(anon_net_counter + 1)
             ELSE Counter(r) = anon_net_counter
    /\ \A n \in NetObjects : Counter(AddNet(St, n)) = anon_net_counter
    /\ \A c \in CompObjects : Counter(AddComponent(St, c)) = anon_net_counter
    /\ \A net \in NetNames, component \in CompNames, sel \in PinSelectors :
          /\ Counter(Connect(St, net, component, sel)) = anon_net_counter
          /\ Counter(ConnectCreateNet(St, net, component, sel)) = anon_net_counter
    /\ Counter(Freeze(St)) = anon_net_counter
    /\ Counter(Ground(St)) = anon_net_counter
    /\ Counter(Validate(St)) = anon_net_counter
    /\ \A j \in 1..(anon_net_counter + 1), k \in 1..(anon_net_counter + 1) :
          j # k => AutoName(j) # AutoName(k)

\* The net named N$1 has been merged away, and the next connect_pins call that names
\* its net itself uses N$2.
C15_Witness ==
    /\ anon_net_counter = 1
    /\ \E n \in NetObjects :
          /\ heapNets[n].name = AutoName(1)
          /\ ~Registered(St, n)
          /\ Degree(heapNets[n]) > 0
    /\ \E call \in ConnectPinsCalls :
          /\ AutoNamed(call)
          /\ Counter(ConnectPinsOf(St, call)) = 2
          /\ ConnectPinsOf(St, call).st.heapNets[
                 PinNet(ConnectPinsOf(St, call).st, CompA(call), PinA(call))].name = "N$2"

\* connect_pins on an unfrozen schematic finds exactly one of the two pins on a net.
OneSideConnected(call) ==
    /\ ~frozen
    /\ Resolves(call)
    /\ (NetA(call) = None) # (NetB(call) = None)

\* C16 (One side connected): when exactly one of the two pins is on a net, connect_pins
\* attaches the other pin to that net and returns it; the registry and the auto-net
\* counter are unchanged, no Net object is made, the net's degree grows by exactly 1,
\* no other net and no other pin changes, and net_name is ignored.
C16_OneSideConnected ==
    \A call \in ConnectPinsCalls :
        OneSideConnected(call) =>
            LET r == ConnectPinsOf(St, call)
                net == IF NetA(call) # None THEN NetA(call) ELSE NetB(call)
                free == IF NetA(call) # None THEN <<CompB(call), PinB(call)>>
                        ELSE <<CompA(call), PinA(call)>>
            IN /\ r.err = "none"
               /\ r.ret = net
               /\ PinNet(r.st, free[1], free[2]) = net
               /\ HasEntry(r.st, net, free[1], free[2])
               /\ Degree(r.st.heapNets[net]) = Degree(heapNets[net]) + 1
               /\ r.st.nets = nets /\ r.st.components = components
               /\ r.st.anon_net_counter = anon_net_counter
               /\ Len(r.st.heapNets) = Len(heapNets)
               /\ \A m \in NetObjects : m # net => r.st.heapNets[m] = heapNets[m]
               /\ \A q \in Pins : q # free => PinNet(r.st, q[1], q[2]) = PinNet(St, q[1], q[2])

\* A pin is on a registered net, another pin is free, and connect_pins attaches the free
\* one from either side, also under the name of a net that is not registered.
C16_Witness ==
    \E call \in ConnectPinsCalls, back \in ConnectPinsCalls :
        /\ OneSideConnected(call) /\ OneSideConnected(back)
        /\ NetA(call) # None /\ NetB(back) # None
        /\ Registered(St, NetA(call))
        /\ call.net_name # "" /\ NetKey(St, call.net_name) = 0
        /\ ConnectPinsOf(St, call).ret = NetA(call)
        /\ ConnectPinsOf(St, back).ret = NetB(back)

\* connect_create_net on an unfrozen schematic names a registered component and, by a
\* valid selector, an unconnected pin of it.
CreatesFor(component, sel, p) ==
    /\ ~frozen
    /\ ComponentByName(St, component).err = "none"
    /\ p[1] = ComponentByName(St, component).ret
    /\ Names(sel, p[1], p[2])
    /\ PinNet(St, p[1], p[2]) = None

\* C17 (connect_create_net and net creation): for an unconnected pin, the first call
\* under a net name makes one Net object, registers it and gives it degree 1; a call
\* under a registered name makes no net, leaves the registry as it is, keeps the net's
\* earlier connections and adds exactly the one pin, so the degree counts the calls.
C17_CreateOnce ==
    \A net_name \in NetNames, component \in CompNames, sel \in PinSelectors, p \in Pins :
        CreatesFor(component, sel, p) =>
            LET r == ConnectCreateNet(St, net_name, component, sel)
                k == NetKey(r.st, net_name)
                n == r.st.nets[k]
            IN /\ r.err = "none"
               /\ k # 0
               /\ Cardinality({j \in 1..Len(r.st.nets) :
                                 r.st.heapNets[r.st.nets[j]].name = net_name}) = 1
               /\ PinNet(r.st, p[1], p[2]) = n
               /\ IF NetKey(St, net_name) = 0
                  THEN /\ n = Len(heapNets) + 1
                       /\ Len(r.st.heapNets) = Len(heapNets) + 1
                       /\ r.st.nets = Append(nets, n)
                       /\ Degree(r.st.heapNets[n]) = 1
                  ELSE /\ n = nets[NetKey(St, net_name)]
                       /\ Len(r.st.heapNets) = Len(heapNets)
                       /\ r.st.nets = nets
                       /\ Degree(r.st.heapNets[n]) = Degree(heapNets[n]) + 1
                       /\ \A q \in Pins :
                             HasEntry(St, n, q[1], q[2]) => HasEntry(r.st, n, q[1], q[2])

\* A registered net that the caller did not construct holds two pins, and one more
\* connect_create_net call under its name adds a third pin to it.
C17_Witness ==
    \E n \in NetObjects, p \in Pins, sel \in PinSelectors :
        /\ Registered(St, n)
        /\ ~heapNets[n].is_ground
        /\ heapNets[n].name \in NetNames
        /\ Degree(heapNets[n]) = 2
        /\ \A q \in Pins : HasEntry(St, n, q[1], q[2]) => PinNet(St, q[1], q[2]) = n
        /\ CreatesFor(heapComps[p[1]].name, sel, p)
        /\ Degree(ConnectCreateNet(St, heapNets[n].name, heapComps[p[1]].name, sel)
                     .st.heapNets[n]) = 3

\* C18 (DuplicateName): add_net and add_component (on a schematic that is not frozen)
\* with a name already in the registry fail with DuplicateName and change nothing, so
\* the object registered under the name stays, with its connections; the names in
\* each registry are pairwise different in every reachable state.
C18_DuplicateName ==
    /\ \A n \in NetObjects :
          (~frozen /\ NetKey(St, heapNets[n].name) # 0) =>
              (AddNet(St, n).err = "DuplicateName" /\ AddNet(St, n).st = St)
    /\ \A c \in CompObjects :
          (~frozen /\ ComponentKey(St, heapComps[c].name) # 0) =>
              (AddComponent(St, c).err = "DuplicateName" /\ AddComponent(St, c).st = St)
    /\ \A j \in 1..Len(nets), k \in 1..Len(nets) :
          j # k => heapNets[nets[j]].name # heapNets[nets[k]].name
    /\ \A j \in 1..Len(components), k \in 1..Len(components) :
          j # k => heapComps[components[j]].name # heapComps[components[k]].name

\* A registered net holds a pin of a registered component, and another Net object and
\* another component object of the same names are refused.
C18_Witness ==
    \E n \in NetObjects, m \in NetObjects, c \in CompObjects, d \in CompObjects :
        /\ n # m /\ heapNets[n].name = heapNets[m].name
        /\ c # d /\ heapComps[c].name = heapComps[d].name
        /\ Registered(St, n) /\ RegisteredComp(St, c)
        /\ ConnectionsOf(heapNets[n], c) # {}
        /\ AddNet(St, m).err = "DuplicateName"
        /\ AddComponent(St, d).err = "DuplicateName"

\* A pin of a registered component comes before another in validate's scan: components
\* in registration order, then pins in pin order.
ScannedBefore(q, p) ==
    \E j \in 1..Len(components), k \in 1..Len(components) :
        /\ components[j] = q[1] /\ components[k] = p[1]
        /\ j < k \/ (j = k /\ q[2] < p[2])

\* C19 (validate): validate() succeeds exactly when every pin of every registered
\* component has a net; otherwise it fails with UnconnectedPin and its message names
\* the first unconnected pin in scan order; it changes nothing and gives the same
\* answer whether or not the schematic is frozen.
C19_Validate ==
    LET r == Validate(St)
        complete == \A p \in Pins : RegisteredComp(St, p[1]) => PinNet(St, p[1], p[2]) # None
    IN /\ r.st = St
       /\ (r.err = "none") <=> complete
       /\ ~complete =>
             /\ r.err = "UnconnectedPin"
             /\ \E p \in Pins :
                   /\ RegisteredComp(St, p[1])
                   /\ PinNet(St, p[1], p[2]) = None
                   /\ \A q \in Pins : ScannedBefore(q, p) => PinNet(St, q[1], q[2]) # None
                   /\ ValidateMessage(St) =
                         <<heapComps[p[1]].name, heapComps[p[1]].pin_names[p[2] + 1]>>
       /\ Validate([St EXCEPT !.frozen = ~frozen]).err = r.err

\* A frozen schematic fails validate(): two registered components each have an
\* unconnected pin, while another pin is connected.
C19_Witness ==
    /\ frozen
    /\ Validate(St).err = "UnconnectedPin"
    /\ \E p \in Pins, q \in Pins, x \in Pins :
          /\ p[1] # q[1]
          /\ RegisteredComp(St, p[1]) /\ RegisteredComp(St, q[1]) /\ RegisteredComp(St, x[1])
          /\ PinNet(St, p[1], p[2]) = None /\ PinNet(St, q[1], q[2]) = None
          /\ PinNet(St, x[1], x[2]) # None

\* The registered nets whose is_ground flag is set.
Grounds(st) == {n \in 1..Len(st.heapNets) : Registered(st, n) /\ st.heapNets[n].is_ground}

\* C20 (ground): ground() returns the registered ground net when there is exactly one,
\* fails with NoGround when there is none and with MultipleGrounds when there are
\* several; it changes nothing; add_net (on a schematic that is not frozen) accepts
\* every net of a free name, a second ground net included.
C20_Ground ==
    LET r == Ground(St)
        count == Cardinality(Grounds(St))
    IN /\ r.st = St
       /\ count = 1 => (r.err = "none" /\ r.ret \in Grounds(St))
       /\ count = 0 => r.err = "NoGround"
       /\ count > 1 => r.err = "MultipleGrounds"
       /\ \A n \in NetObjects :
             (~frozen /\ NetKey(St, heapNets[n].name) = 0) =>
                 (AddNet(St, n).err = "none" /\ Registered(AddNet(St, n).st, n))

\* Two ground nets are registered, the second one after the first, and ground() fails.
C20_Witness ==
    /\ Cardinality(Grounds(St)) = 2
    /\ Ground(St).err = "MultipleGrounds"

\* The positions of an incidence list that hold pin idx of component c.
Occurrences(incidences, c, idx) ==
    {k \in 1..Len(incidences) : incidences[k][2] = c /\ incidences[k][3] = idx}

\* The netlist is built from registered nets and registered components: every pin of a
\* registered component is unconnected or on a registered net, and the registered nets
\* hold pins of registered components only.
BuiltFromRegistered ==
    /\ \A p \in Pins :
          (RegisteredComp(St, p[1]) /\ PinNet(St, p[1], p[2]) # None) =>
              Registered(St, PinNet(St, p[1], p[2]))
    /\ \A n \in NetObjects, p \in Pins :
          (Registered(St, n) /\ HasEntry(St, n, p[1], p[2])) => RegisteredComp(St, p[1])

\* C21 (Incidence completeness and uniqueness): when the netlist is built from
\* registered nets and components and validate() succeeds, the incidence list over
\* the schematic's nets holds each pin of every registered component exactly once,
\* and nothing else.
C21_IncidenceComplete ==
    (BuiltFromRegistered /\ Validate(St).err = "none") =>
        LET incidences == StarExpansionFromVertices(St, nets).ret
        IN /\ \A p \in Pins :
                 RegisteredComp(St, p[1]) =>
                     Cardinality(Occurrences(incidences, p[1], p[2])) = 1
           /\ \A k \in 1..Len(incidences) :
                 /\ RegisteredComp(St, incidences[k][2])
                 /\ <<incidences[k][2], incidences[k][3]>> \in Pins

\* C22 (connections is a snapshot): the sets of the mapping that Net.connections
\* returns cannot be modified (add fails with AttributeError); adding an entry to the
\* mapping or emptying it leaves the net's connections and degree as they were; and
\* the mapping still holds what it held when taken after any later Net.connect,
\* Schematic.connect, connect_create_net or connect_pins call, merges included.
C22_Snapshot ==
    \A n \in NetObjects :
        LET snapshot == Connections(St, n)
        IN /\ Shown(St, snapshot) = heapNets[n].connections
           /\ \A p \in Pins :
                 /\ MappingSetAdd(St, snapshot, p[1], p[2]).err # "none"
                 /\ MappingSetAdd(St, snapshot, p[1], p[2]).st = St
                 /\ ConnectionsOf(heapNets[n], p[1]) # {} =>
                       MappingSetAdd(St, snapshot, p[1], p[2]).err = "AttributeError"
           /\ \A c \in CompObjects :
                 ConnectionsOf(heapNets[n], c) = {} =>
                     MappingAssign(St, snapshot, c, {0}).st = St
           /\ MappingClear(St, snapshot).st = St
           /\ \A m \in NetObjects, c \in CompObjects, sel \in PinSelectors :
                 Shown(NetConnect(St, m, c, sel).st, snapshot) = heapNets[n].connections
           /\ \A net \in NetNames, component \in CompNames, sel \in PinSelectors :
                 /\ Shown(Connect(St, net, component, sel).st, snapshot) =
                       heapNets[n].connections
                 /\ Shown(ConnectCreateNet(St, net, component, sel).st, snapshot) =
                       heapNets[n].connections
           /\ \A call \in ConnectPinsCalls :
                 Shown(ConnectPinsOf(St, call).st, snapshot) = heapNets[n].connections

\* A net holds a pin, and both a Net.connect call and a merge would change the
\* connections it was holding when the snapshot was taken.
C22_Witness ==
    \E n \in NetObjects :
        /\ Degree(heapNets[n]) > 0
        /\ \E c \in CompObjects, sel \in PinSelectors :
              /\ NetConnect(St, n, c, sel).err = "none"
              /\ NetConnect(St, n, c, sel).st.heapNets[n].connections # heapNets[n].connections
        /\ \E call \in ConnectPinsCalls :
              /\ ConnectPinsOf(St, call).path = "merge"
              /\ ConnectPinsOf(St, call).st.heapNets[n].connections # heapNets[n].connections

\* The vocabulary of the claims about the projections.
Supplied(vertices) == {vertices[k] : k \in 1..Len(vertices)}
NetName(n) == heapNets[n].name
Touches(c, n) == ConnectionsOf(heapNets[n], c) # {}
Touched(c, vertices) == {n \in Supplied(vertices) : Touches(c, n)}
Bipartite(vertices) == BuildBipartiteGraphFromVertices(St, vertices).ret
NetMultigraph(vertices) == BuildNetMultigraphFromVertices(St, vertices).ret
Edges(graph) == 1..Len(graph.edges)
Between(graph, x, y) ==
    {k \in Edges(graph) : {graph.edges[k].u, graph.edges[k].v} = {x, y}}
EdgesOf(graph, c) == {k \in Edges(graph) : graph.edges[k].component = c}
NodeDegree(graph, id) ==
    Cardinality({k \in Edges(graph) : id \in {graph.edges[k].u, graph.edges[k].v}})

\* C23 (bipartite edges): for every input sequence of nets, duplicates included, the
\* bipartite graph has exactly one edge for each attachment (net, component, pin index)
\* recorded in the input nets, between the two names and carrying that pin index and
\* the two objects, and every edge is the edge of such an attachment.
C23_BipartiteEdges ==
    \A vertices \in VertexInputs :
        LET graph == Bipartite(vertices)
        IN /\ \A n \in Supplied(vertices), p \in Pins :
                 HasEntry(St, n, p[1], p[2]) =>
                     Cardinality({k \in Edges(graph) :
                         /\ graph.edges[k].net_obj = n
                         /\ graph.edges[k].comp_obj = p[1]
                         /\ graph.edges[k].pin_index = p[2]
                         /\ graph.edges[k].u = NetName(n)
                         /\ graph.edges[k].v = heapComps[p[1]].name}) = 1
           /\ \A k \in 1..Len(graph.edges) :
                 /\ graph.edges[k].net_obj \in Supplied(vertices)
                 /\ HasEntry(St, graph.edges[k].net_obj, graph.edges[k].comp_obj,
                             graph.edges[k].pin_index)

\* C24 (net-projected edge count): for every input sequence of nets, each component
\* touching k of the supplied nets has exactly k(k-1)/2 edges, one for each unordered
\* pair of distinct nets it touches, and the edges between two supplied nets are as
\* many as the components with a pin on each of them.
C24_EdgeCount ==
    \A vertices \in VertexInputs :
        LET graph == NetMultigraph(vertices)
        IN /\ \A c \in CompObjects :
                 LET k == Cardinality(Touched(c, vertices))
                 IN /\ 2 * Cardinality(EdgesOf(graph, c)) = k * (k - 1)
                    /\ \A a, b \in Touched(c, vertices) :
                          a # b =>
                              Cardinality(EdgesOf(graph, c)
                                  \cap Between(graph, NetName(a), NetName(b))) = 1
           /\ \A a, b \in Supplied(vertices) :
                 a # b =>
                     Cardinality(Between(graph, NetName(a), NetName(b))) =
                         Cardinality({c \in CompObjects : Touches(c, a) /\ Touches(c, b)})

\* One component touches three nets, with C(3,2) = 3 edges to give.
C24_Witness ==
    \E c \in CompObjects :
        Cardinality({n \in NetObjects : Registered(St, n) /\ Touches(c, n)}) = 3

\* C25 (isolated net visibility): for every input sequence of nets, every supplied net
\* is a node of the bipartite graph and of the net-projected multigraph, a supplied net
\* with empty connections has no edge in either, and a component is a node of the
\* bipartite graph only when a supplied net connects to it.
C25_IsolatedNets ==
    \A vertices \in VertexInputs :
        LET bipartite == Bipartite(vertices)
            projected == NetMultigraph(vertices)
        IN /\ \A n \in Supplied(vertices) :
                 /\ HasNode(bipartite.nodes, NetName(n))
                 /\ HasNode(projected.nodes, NetName(n))
                 /\ heapNets[n].connections = <<>> =>
                       /\ NodeDegree(bipartite, NetName(n)) = 0
                       /\ NodeDegree(projected, NetName(n)) = 0
           /\ \A k \in 1..Len(bipartite.nodes) :
                 \/ /\ bipartite.nodes[k].kind = "net"
                    /\ bipartite.nodes[k].obj \in Supplied(vertices)
                 \/ /\ bipartite.nodes[k].kind = "component"
                    /\ Touched(bipartite.nodes[k].obj, vertices) # {}

\* A registered net with empty connections stands beside a net that holds a pin.
C25_Witness ==
    \E n, m \in NetObjects :
        /\ Registered(St, n) /\ heapNets[n].connections = <<>>
        /\ Registered(St, m) /\ Degree(heapNets[m]) > 0

\* The same nets supplied in ascending order of their creation.
Sorted(vertices) == SortSeq(vertices, LAMBDA x, y : x < y)
Reordered(vertices) == Sorted(vertices) # vertices
NodeSet(graph) == {graph.nodes[k] : k \in 1..Len(graph.nodes)}
Payload(e) == [component |-> e.component, nets |-> e.nets, pin_map |-> e.pin_map]
PayloadUnordered(e) ==
    [component |-> e.component, nets |-> {e.nets[1], e.nets[2]}, pin_map |-> e.pin_map]
WithPayload(graph, payload) ==
    Cardinality({k \in Edges(graph) : Payload(graph.edges[k]) = payload})
WithPayloadUnordered(graph, payload) ==
    Cardinality({k \in Edges(graph) : PayloadUnordered(graph.edges[k]) = payload})
SameMultiplicity(g, h) ==
    /\ Len(g.edges) = Len(h.edges)
    /\ \A k \in Edges(g) :
          Cardinality(Between(g, g.edges[k].u, g.edges[k].v)) =
              Cardinality(Between(h, g.edges[k].u, g.edges[k].v))

\* C26 (order independence), as stated: every ordering of the supplied nets gives the
\* node set, the edge multiplicity between each pair of nets and the edge payloads
\* (component, nets, pin_map) that the ascending ordering gives, hence all orderings
\* give the same.
C26_OrderIndependent ==
    \A vertices \in VertexInputs :
        /\ NodeSet(NetMultigraph(vertices)) = NodeSet(NetMultigraph(Sorted(vertices)))
        /\ SameMultiplicity(NetMultigraph(vertices), NetMultigraph(Sorted(vertices)))
        /\ \A k \in Edges(NetMultigraph(vertices)) :
              WithPayload(NetMultigraph(vertices),
                          Payload(NetMultigraph(vertices).edges[k])) =
                  WithPayload(NetMultigraph(Sorted(vertices)),
                              Payload(NetMultigraph(vertices).edges[k]))

\* C26 amended: every ordering of the supplied nets gives the same node set, the same
\* edge multiplicity between each pair of nets, and the same payloads of component,
\* pin_map and the two net names of the nets attribute taken as an unordered pair.
C26_OrderIndependentUpToPair ==
    \A vertices \in VertexInputs :
        /\ NodeSet(NetMultigraph(vertices)) = NodeSet(NetMultigraph(Sorted(vertices)))
        /\ SameMultiplicity(NetMultigraph(vertices), NetMultigraph(Sorted(vertices)))
        /\ \A k \in Edges(NetMultigraph(vertices)) :
              WithPayloadUnordered(NetMultigraph(vertices),
                                   PayloadUnordered(NetMultigraph(vertices).edges[k])) =
                  WithPayloadUnordered(NetMultigraph(Sorted(vertices)),
                                       PayloadUnordered(NetMultigraph(vertices).edges[k]))

\* A component touches three nets, so that an ordering of them that is not the
\* ascending one changes which pairs are discovered first.
C26_Witness ==
    /\ \E vertices \in VertexInputs :
          Reordered(vertices) /\ Len(NetMultigraph(vertices).edges) = 3
    /\ \E c \in CompObjects : Cardinality({n \in NetObjects : Touches(c, n)}) = 3

\* The place in the input where a net the component touches is first supplied.
FirstSeen(vertices, n) ==
    CHOOSE k \in 1..Len(vertices) : vertices[k] = n /\ \A j \in 1..(k - 1) : vertices[j] # n

\* C27 (net-projected edge attributes): every edge carries a component and its name,
\* the names of two supplied nets that the component touches, the first of them
\* supplied before the second, and a pin_map giving for each of the two names the
\* complete set of the component's pin indices on that net.
C27_EdgeAttributes ==
    \A vertices \in VertexInputs :
        LET graph == NetMultigraph(vertices)
        IN \A k \in 1..Len(graph.edges) :
              LET e == graph.edges[k]
              IN /\ e.component \in CompObjects
                 /\ e.component_name = heapComps[e.component].name
                 /\ \E a, b \in Touched(e.component, vertices) :
                       /\ FirstSeen(vertices, a) < FirstSeen(vertices, b)
                       /\ e.nets = <<NetName(a), NetName(b)>>
                       /\ e.u = NetName(a) /\ e.v = NetName(b)
                       /\ e.pin_map =
                             {<<NetName(a), ConnectionsOf(heapNets[a], e.component)>>,
                              <<NetName(b), ConnectionsOf(heapNets[b], e.component)>>}

\* A component has two pins on one net and a pin on another, and the nets can be
\* supplied in either order.
C27_Witness ==
    \E c \in CompObjects, a, b \in NetObjects :
        /\ a # b
        /\ Cardinality(ConnectionsOf(heapNets[a], c)) = 2
        /\ Touches(c, b)
        /\ NetMultigraph(<<b, a>>).edges # <<>>
        /\ NetMultigraph(<<a, b>>).edges # NetMultigraph(<<b, a>>).edges

\* C28 (projections are read-only): star expansion, eager and lazy, the bipartite
\* builder and the net-projected builder leave every net's connections, every pin's
\* net, both registries, the frozen flag and the auto-net counter as they were, for
\* every input sequence of nets.
C28_ReadOnly ==
    \A vertices \in VertexInputs :
        /\ StarExpansionFromVertices(St, vertices).st = St
        /\ StarExpansionIter(St, vertices).st = St
        /\ BuildBipartiteGraphFromVertices(St, vertices).st = St
        /\ BuildNetMultigraphFromVertices(St, vertices).st = St

\* The projections have something to read: a frozen schematic after a merge, with a
\* pin on a registered net.
C28_Witness ==
    /\ frozen /\ anon_net_counter > 0
    /\ \E n \in NetObjects : Registered(St, n) /\ Degree(heapNets[n]) > 1
    /\ \E vertices \in VertexInputs :
          StarExpansionFromVertices(St, vertices).ret # <<>>

DividerCalls ==
    << <<"VCC", "R1", "1">>, <<"VOUT", "R1", "2">>, <<"VOUT", "R2", "1">>,
       <<"GND", "R2", "2">> >>
RECURSIVE DividerAfter(_)
DividerAfter(k) ==
    IF k = 0
    THEN LET sch == [nets |-> <<>>, components |-> <<>>, frozen |-> FALSE,
                     anon_net_counter |-> 0, heapNets |-> <<>>,
                     heapComps |-> <<Component("R1", <<"1", "2">>),
                                     Component("R2", <<"1", "2">>)>>]
         IN AddComponent(AddComponent(sch, 1).st, 2)
    ELSE ConnectCreateNet(DividerAfter(k - 1).st, DividerCalls[k][1], DividerCalls[k][2],
                          StrSel(DividerCalls[k][3]))
VoltageDivider == DividerAfter(Len(DividerCalls)).st
Triples(incidences) ==
    {<<NetName(incidences[k][1]), heapComps[incidences[k][2]].name, incidences[k][3]>> :
        k \in 1..Len(incidences)}

\* C30 (voltage-divider scenario): no call of the fixture raises, and in the state it
\* leaves the registered nets are exactly VCC, VOUT and GND, the incidences of the
\* schematic's nets are exactly (VCC,R1,0), (VOUT,R1,1), (VOUT,R2,0), (GND,R2,1), and
\* the net-projected multigraph has exactly two edges, one VCC-VOUT of R1 and one
\* VOUT-GND of R2, none VCC-GND.
C30_VoltageDivider ==
    St = VoltageDivider =>
        LET incidences == StarExpansionFromVertices(St, nets).ret
            graph == NetMultigraph(nets)
        IN /\ \A k \in 0..Len(DividerCalls) : DividerAfter(k).err = "none"
           /\ Len(nets) = 3
           /\ {NetName(nets[k]) : k \in 1..Len(nets)} = {"VCC", "VOUT", "GND"}
           /\ Len(incidences) = 4
           /\ Triples(incidences) =
                 {<<"VCC", "R1", 0>>, <<"VOUT", "R1", 1>>, <<"VOUT", "R2", 0>>,
                  <<"GND", "R2", 1>>}
           /\ Len(graph.edges) = 2
           /\ \E k \in Between(graph, "VCC", "VOUT") : graph.edges[k].component_name = "R1"
           /\ \E k \in Between(graph, "VOUT", "GND") : graph.edges[k].component_name = "R2"
           /\ Between(graph, "VCC", "GND") = {}

\* The calls of the fixture, made one after the other, have led to its state.
C30_Witness ==
    /\ St = VoltageDivider
    /\ Len(nets) = 3 /\ Len(components) = 2
    /\ \A p \in Pins : PinNet(St, p[1], p[2]) # None

\* The vocabulary of the claims about components.
Repeats(pin_names) ==
    \E i, j \in 1..Len(pin_names) : i # j /\ pin_names[i] = pin_names[j]
SamePins(st, other) ==
    \A c \in 1..Len(st.heapComps) :
        /\ other.heapComps[c].name = st.heapComps[c].name
        /\ other.heapComps[c].pin_names = st.heapComps[c].pin_names
        /\ Len(other.heapComps[c].pin_net) = Len(st.heapComps[c].pin_net)

\* C31 (component construction): the constructor fails for an empty pin-name list and
\* for a list with a repeated name; otherwise the component has one pin for each name,
\* at the name's position, with no net, and pin(name) gives that position.  Every
\* component alive is one the constructor accepts, and no Net.connect, connect,
\* connect_create_net or connect_pins call, merges included, changes its name, its pin
\* names, their order or their number.
C31_Construction ==
    /\ \A pin_names \in PinNameLists :
          LET made == BaseComponentInit("R1", pin_names)
          IN IF pin_names = <<>> \/ Repeats(pin_names)
             THEN made.err = "DuplicateOrEmptyPins"
             ELSE /\ made.err = "none"
                  /\ made.ret.pin_names = pin_names
                  /\ Len(made.ret.pin_net) = Len(pin_names)
                  /\ \A k \in 1..Len(pin_names) :
                        /\ made.ret.pin_net[k] = None
                        /\ PinLookup(made.ret, pin_names[k]) = k - 1
    /\ \A c \in CompObjects :
          /\ BaseComponentInit(heapComps[c].name, heapComps[c].pin_names).err = "none"
          /\ Len(heapComps[c].pin_net) = Len(heapComps[c].pin_names)
    /\ \A n \in NetObjects, c \in CompObjects, sel \in PinSelectors :
          SamePins(St, NetConnect(St, n, c, sel).st)
    /\ \A net \in NetNames, component \in CompNames, sel \in PinSelectors :
          /\ SamePins(St, Connect(St, net, component, sel).st)
          /\ SamePins(St, ConnectCreateNet(St, net, component, sel).st)
    /\ \A p \in Pins, q \in Pins, merge \in BOOLEAN :
          SamePins(St, ConnectPinsOf(St, Call(CompObj(p[1]), IntSel(p[2]), CompObj(q[1]),
                                              IntSel(q[2]), "", merge)).st)

\* A component constructed with the names "2", "1" has had its pins merged onto one
\* net, and pin("2") is still its first pin.
C31_Witness ==
    /\ last.via = "merge"
    /\ \E c \in CompObjects :
          /\ heapComps[c].pin_names = <<"2", "1">>
          /\ PinLookup(heapComps[c], "2") = 0
          /\ PinNet(St, c, 0) # None
          /\ PinNet(St, c, 0) = PinNet(St, c, 1)

\* The pins of a component that have a net, in pin order.
ConnectedPins(st, c) ==
    Ascending({i \in 0..(Len(st.heapComps[c].pin_names) - 1) : PinNet(st, c, i) # None})

\* C32 (connected_nets): for every component, connected_nets() yields the net of each
\* connected pin, in pin order, one entry for each pin, so a net holding k of its pins
\* occurs k times; and after connect_pins has merged net_b into net_a it yields net_a
\* where it yielded net_b and what it yielded before everywhere else.
C32_ConnectedNets ==
    \A c \in CompObjects :
        LET yielded == ConnectedNets(St, c)
        IN /\ Len(yielded) = Len(ConnectedPins(St, c))
           /\ \A k \in 1..Len(yielded) : yielded[k] = PinNet(St, c, ConnectedPins(St, c)[k])
           /\ \A n \in NetObjects :
                 Cardinality({k \in 1..Len(yielded) : yielded[k] = n}) =
                     Cardinality({p \in Pins : p[1] = c /\ PinNet(St, c, p[2]) = n})
           /\ \A call \in ConnectPinsCalls :
                 (OnDifferentNets(call) /\ call.allow_merge) =>
                     ConnectedNets(ConnectPinsOf(St, call).st, c) =
                         [k \in 1..Len(yielded) |->
                             IF yielded[k] = NetB(call) THEN NetA(call) ELSE yielded[k]]

\* C33 (normalization establishes the graph contract): for the net-projected
\* multigraph of the schematic's nets, as built or with a label or a meta set on its
\* edges, normalize_graph_contract returns a graph that validate_graph_contract reports
\* valid, with a non-empty string label, a string kind and a dict meta on every node
\* and edge, and every label, kind and meta that was present has kept its value.
C33_NormalizeEstablishes ==
    \A G \in ContractInputs :
        LET normalized == NormalizeGraphContract(G)
        IN /\ ValidateGraphContract(normalized).valid
           /\ \A k \in 1..Len(G.nodes) :
                 /\ normalized.nodes[k].label.type = "str"
                 /\ normalized.nodes[k].label.s # ""
                 /\ normalized.nodes[k].kind.type = "str"
                 /\ normalized.nodes[k].meta.type = "dict"
           /\ \A k \in 1..Len(G.edges) :
                 /\ normalized.edges[k].label.type = "str"
                 /\ normalized.edges[k].label.s # ""
                 /\ normalized.edges[k].kind.type = "str"
                 /\ normalized.edges[k].meta.type = "dict"
                 /\ G.edges[k].label.type # "absent" =>
                       normalized.edges[k].label = G.edges[k].label
                 /\ G.edges[k].meta.type \notin {"absent", "None"} =>
                       normalized.edges[k].meta = G.edges[k].meta

\* The schematic as it would be were it not frozen.
Thawed == [St EXCEPT !.frozen = FALSE]

\* C35 (Frozen is the first gate): on a frozen schematic add_net, add_component,
\* connect, connect_create_net and connect_pins fail with Frozen and change nothing,
\* whatever their arguments: a duplicate name, an unknown net, component or pin, an
\* unregistered component, an index out of range or pins on different nets.
C35_FrozenFirst ==
    frozen =>
        /\ \A n \in NetObjects :
              AddNet(St, n).err = "Frozen" /\ AddNet(St, n).st = St
        /\ \A c \in CompObjects :
              AddComponent(St, c).err = "Frozen" /\ AddComponent(St, c).st = St
        /\ \A net \in NetNames, component \in CompNames, sel \in PinSelectors :
              /\ Connect(St, net, component, sel).err = "Frozen"
              /\ Connect(St, net, component, sel).st = St
              /\ ConnectCreateNet(St, net, component, sel).err = "Frozen"
              /\ ConnectCreateNet(St, net, component, sel).st = St
        /\ \A call \in ConnectPinsCalls :
              /\ ConnectPinsOf(St, call).err = "Frozen"
              /\ ConnectPinsOf(St, call).st = St

\* A frozen schematic on which, were it not frozen, calls would fail with each of
\* DuplicateName, NotFound, OutOfRange, NotRegistered and UnmergedNets.
C35_Witness ==
    /\ frozen
    /\ \E n \in NetObjects : AddNet(Thawed, n).err = "DuplicateName"
    /\ \E c \in CompObjects : AddComponent(Thawed, c).err = "DuplicateName"
    /\ \E net \in NetNames, component \in CompNames, sel \in PinSelectors :
          /\ Connect(Thawed, net, component, sel).err = "NotFound"
          /\ ConnectCreateNet(Thawed, net, component, sel).err = "NotFound"
    /\ \E net \in NetNames, component \in CompNames, sel \in PinSelectors :
          /\ Connect(Thawed, net, component, sel).err = "OutOfRange"
          /\ ConnectCreateNet(Thawed, net, component, sel).err = "OutOfRange"
    /\ \A e \in {"NotRegistered", "NotFound", "UnmergedNets"} :
          \E call \in ConnectPinsCalls : ConnectPinsOf(Thawed, call).err = e

\* An integer selector outside [0, pin_count) of the component it is resolved on.
OutsideBounds(st, comp, sel) ==
    /\ sel.kind = "int"
    /\ ResolveComponent(st, comp).err = "none"
    /\ ~(0 <= sel.i /\ sel.i < Len(st.heapComps[ResolveComponent(st, comp).ret].pin_names))

\* C36 (connect_pins bounds): on a schematic that is not frozen, with both components
\* registered, an integer selector outside [0, pin_count) for either component,
\* negative integers included, makes connect_pins fail with OutOfRange and leaves the
\* nets, the pins and the auto-net counter as they were.
C36_ConnectPinsBounds ==
    \A call \in ConnectPinsCalls :
        (/\ ~frozen
         /\ ResolveComponent(St, call.comp_a).err = "none"
         /\ ResolveComponent(St, call.comp_b).err = "none"
         /\ \/ OutsideBounds(St, call.comp_a, call.pin_a)
            \/ OutsideBounds(St, call.comp_b, call.pin_b))
        => /\ ConnectPinsOf(St, call).err = "OutOfRange"
           /\ ConnectPinsOf(St, call).st = St

\* connect_pins on an unfrozen schematic, with net_name, finds two different pins,
\* both unconnected.
Named(call) ==
    /\ ~frozen
    /\ Resolves(call)
    /\ NetA(call) = None /\ NetB(call) = None
    /\ <<CompA(call), PinA(call)>> # <<CompB(call), PinB(call)>>
    /\ call.net_name # ""

\* C37 (named net for two unconnected pins): connect_pins with net_name on two
\* different unconnected pins returns a registered net of that name: a new net object
\* when no net of that name was registered, and otherwise the net object registered
\* under that name, with every connection it had; both pins are on the returned net,
\* its degree has grown by exactly 2, the other registered nets are as they were and
\* the auto-net counter is not advanced.
C37_NamedNet ==
    \A call \in ConnectPinsCalls :
        Named(call) =>
            LET r == ConnectPinsOf(St, call)
                key == NetKey(St, call.net_name)
            IN /\ r.err = "none"
               /\ r.st.heapNets[r.ret].name = call.net_name
               /\ Registered(r.st, r.ret)
               /\ r.st.nets[NetKey(r.st, call.net_name)] = r.ret
               /\ IF key = 0
                  THEN /\ r.ret \notin NetObjects
                       /\ r.st.nets = Append(nets, r.ret)
                       /\ Degree(r.st.heapNets[r.ret]) = 2
                  ELSE /\ r.ret = nets[key]
                       /\ r.st.nets = nets
                       /\ \A p \in Pins :
                             HasEntry(St, r.ret, p[1], p[2]) => HasEntry(r.st, r.ret, p[1], p[2])
                       /\ Degree(r.st.heapNets[r.ret]) = Degree(heapNets[r.ret]) + 2
               /\ PinNet(r.st, CompA(call), PinA(call)) = r.ret
               /\ PinNet(r.st, CompB(call), PinB(call)) = r.ret
               /\ \A n \in NetObjects : n # r.ret => r.st.heapNets[n] = heapNets[n]
               /\ r.st.anon_net_counter = anon_net_counter

\* The last change was made by connect_pins on two unconnected pins, every such call
\* so far gave a name, and a registered net of the caller's name that held one pin
\* now holds that pin and the two pins of the call.
C37_Witness ==
    /\ last.via = "create"
    /\ last.err = "none"
    /\ anon_net_counter = 0
    /\ \E n \in NetObjects :
          /\ Registered(St, n)
          /\ heapNets[n].name \in NetNames
          /\ Degree(heapNets[n]) = 3
          /\ \A p \in Pins : PinNet(St, p[1], p[2]) = n

\* C39 (a merge removes only the source net): when connect_pins merges net_b into
\* net_a, every net that was registered, net_b apart, is still registered under its
\* own name afterwards, and its connections are what they were unless it is net_a;
\* this in every state the public operations reach, those included where a pin was
\* attached with Net.connect to a net that was never added to the schematic.
C39_MergeRemovesSource ==
    \A call \in ConnectPinsCalls :
        (OnDifferentNets(call) /\ call.allow_merge) =>
            LET r == ConnectPinsOf(St, call)
            IN \A n \in NetObjects :
                  (Registered(St, n) /\ n # NetB(call)) =>
                      /\ Registered(r.st, n)
                      /\ r.st.nets[NetKey(r.st, heapNets[n].name)] = n
                      /\ n # NetA(call) =>
                            r.st.heapNets[n].connections = heapNets[n].connections

\* What a merge leaves of the target and of the registry's ground nets: the target's
\* name and is_ground flag as they were, and one registered ground net fewer when
\* net_b was a ground net, as many as before when it was not.
KeepsTarget(call) ==
    LET r == ConnectPinsOf(St, call)
    IN /\ r.st.heapNets[NetA(call)].name = heapNets[NetA(call)].name
       /\ r.st.heapNets[NetA(call)].is_ground = heapNets[NetA(call)].is_ground
       /\ Cardinality(Grounds(r.st)) =
              Cardinality(Grounds(St)) - (IF heapNets[NetB(call)].is_ground THEN 1 ELSE 0)

KindOf(graph, id) ==
    graph.nodes[CHOOSE k \in 1..Len(graph.nodes) : graph.nodes[k].id = id].kind

\* C38 (bipartiteness): in the bipartite graph built over the schematic's registered
\* nets every edge joins a node of kind 'net' and a node of kind 'component', and the
\* graph has as many nodes as there are registered nets and components connected to
\* them together; also when a net and a component carry the same name.
C38_Bipartite ==
    LET graph == Bipartite(nets)
    IN /\ \A k \in Edges(graph) :
             /\ HasNode(graph.nodes, graph.edges[k].u)
             /\ HasNode(graph.nodes, graph.edges[k].v)
             /\ KindOf(graph, graph.edges[k].u) = "net"
             /\ KindOf(graph, graph.edges[k].v) = "component"
       /\ Len(graph.nodes) =
              Len(nets) + Cardinality({c \in CompObjects : Touched(c, nets) # {}})

\* What freeze() protects: the registries, the auto-net counter, the nets' connections
\* and the pins' nets.
Structure == <<nets, components, anon_net_counter, heapNets, heapComps>>

\* C34 (mutators are not atomic under concurrency): when all calls are serialized by
\* one lock, no step changes the structure of a schematic whose frozen flag is
\* already true; a step that does so is taken only by threads that do not serialize
\* their calls.
C34_Serialized ==
    [][(frozen /\ Structure' # Structure) => ~pc.serialized]_vars

\* Without a lock: a connect call passed its frozen check, freeze() completed, and
\* the call then put the pin on the net of the frozen schematic.
C34_Witness ==
    /\ ~pc.serialized
    /\ frozen
    /\ last = [err |-> "none", via |-> "late"]
    /\ pc.mutator = Idle
    /\ \E n \in NetObjects :
          /\ Registered(St, n)
          /\ PinNet(St, 1, 0) = n
          /\ HasEntry(St, n, 1, 0)

====
